---- MODULE Spec2Model ----
(***************************************************************************)
(* A model of the combat state engine of initiative.c (the D&D initiative  *)
(* tracker): the roster, the turn cursor, the condition menu, the death    *)
(* save resolver, the combat log, the undo stack and the save file.        *)
(*                                                                         *)
(* The program's GameState is the record held by the variable "state";     *)
(* every handler of the source is an operator from GameState (and the      *)
(* values typed at its prompts) to GameState, and every key of main's      *)
(* dispatch loop is one action.  Indices are 0-based as in the source:     *)
(* combatants[i] of the source is state.combatants[i + 1] here.            *)
(***************************************************************************)
EXTENDS Integers, Sequences, FiniteSets, TLC

(***************************************************************************)
(* Program constants.                                                      *)
(***************************************************************************)
MAX_COMBATANTS == 50
NAME_LENGTH == 32
NUM_CONDITIONS == 15
MAX_UNDO_STACK == 10
INT_MAX == 2147483647
INT_MIN == (-INT_MAX) - 1
TYPE_PLAYER == 0
TYPE_ENEMY == 1
\* COND_UNCONSCIOUS is bit 13 of the condition mask; a mask is modelled as
\* the set of its bit positions.
COND_UNCONSCIOUS == 13
MODE_COMBAT == 0
MODE_CONDITIONS == 1
MODE_HELP == 2
\* duplicate_combatant reserves max_suffix_len characters for the suffix.
max_suffix_len == 12
max_base_len == NAME_LENGTH - max_suffix_len

(***************************************************************************)
(* Bounds of the model (not program constants).                            *)
(***************************************************************************)
\* add and duplicate are issued only while the roster has fewer entries.
MaxRoster == 2
\* snapshot-pushing keys are pressed only while fewer than this many pushes
\* are pending (pushed and not undone).
MaxUndoDepth == 2
\* logging keys are pressed only while the log has fewer entries.
MaxLog == 4
\* next-turn wraps only while round is lower.
MaxRound == 2
\* in the condition menu the cursor is moved up at most this far from 0.
MaxCursorUp == 2
\* roster size and undo depth of the sessions that duplicate (SpecNames).
MaxNamedRoster == 4
MaxNameDepth == 3
\* commands tried on the crowded roster beyond its capacity (SpecFull).
MaxOverfill == 2
\* lines the export file may hold when an export starts (SpecExport).
MaxExportLines == 8
\* pushes and log entries of the sessions that roll death saves (SpecDying).
MaxDyingDepth == 7
MaxDyingLog == 12
\* pushes and log entries of the sessions that only move the turn (SpecTurns).
MaxTurnDepth == 4
MaxTurnLog == 10
\* log entries kept in view in the sessions with the save file (SpecDisk).
MaxDiskLog == 3
\* ids handed out in those sessions (a load empties the undo stack, so the
\* depth of the stack does not limit them).
MaxDiskId == 3
\* the same two limits for the runs of pushes followed by undos (SpecUndo).
UndoRunDepth == 12
UndoRunLog == 40

(***************************************************************************)
(* 32-bit signed arithmetic.  The source adds and subtracts ints without   *)
(* overflow checks; the build wraps modulo 2^32.                           *)
(***************************************************************************)
Add32(a, b) ==
    IF b > 0 /\ a > INT_MAX - b THEN (a - INT_MAX - 1) + (b - INT_MAX - 1)
    ELSE IF b < 0 /\ a < INT_MIN - b THEN (a + INT_MAX + 1) + (b + INT_MAX + 1)
    ELSE a + b

Sub32(a, b) ==
    IF b < 0 /\ a > INT_MAX + b THEN (a - INT_MAX - 1) - (b + INT_MAX + 1)
    ELSE IF b > 0 /\ a < INT_MIN + b THEN (a + INT_MAX + 1) - (b - INT_MAX - 1)
    ELSE a - b

(***************************************************************************)
(* Sequences.                                                              *)
(***************************************************************************)
Front(s) == SubSeq(s, 1, Len(s) - 1)

Last(s) == s[Len(s)]

Range(s) == {s[i] : i \in 1..Len(s)}

(***************************************************************************)
(* The Combatant record.                                                   *)
(***************************************************************************)
Conditions == 0..(NUM_CONDITIONS - 1)

NoDurations == [j \in Conditions |-> 0]

\* Combatant c = {0} with the fields add_combatant fills in.
NewCombatant(id, name, type, initiative, dex, max_hp) ==
    [id |-> id, name |-> name, initiative |-> initiative, dex |-> dex,
     max_hp |-> max_hp, hp |-> max_hp, type |-> type,
     conditions |-> {}, condition_duration |-> NoDurations,
     death_save_successes |-> 0, death_save_failures |-> 0,
     is_stable |-> 0, is_dead |-> 0]

(***************************************************************************)
(* Variables.                                                              *)
(*   state      the GameState of main                                      *)
(*   save_file  the content of the save file on disk                       *)
(*   export_file  the lines this run has appended to the log export file   *)
(*   last_cmd   history: the key main dispatched last, with the die rolled *)
(*   hist       history: the live state at each snapshot push not yet      *)
(*              undone (never evicted)                                     *)
(*   nt_run     history: the run of consecutive next-turn commands         *)
(***************************************************************************)
VARIABLES state, save_file, export_file, last_cmd, hist, nt_run

vars == <<state, save_file, export_file, last_cmd, hist, nt_run>>

count(s) == s.count

log_count(s) == Len(s.combat_log)

undo_count(s) == Len(s.undo_stack)

\* main: GameState state = {0} and the assignments that follow it.
InitialState ==
    [combatants |-> <<>>, count |-> 0, current_turn_id |-> -1, selected_id |-> -1,
     round |-> 1, next_id |-> 1, combat_log |-> <<>>, undo_stack |-> <<>>,
     mode |-> MODE_COMBAT, condition_menu_cursor |-> 0,
     condition_menu_target_id |-> -1]

(***************************************************************************)
(* Helpers of the source.                                                  *)
(***************************************************************************)
\* The 0-based index of the first combatant with this id, or -1.
get_index_by_id(s, id) ==
    IF \E i \in 1..count(s) : s.combatants[i].id = id
    THEN (CHOOSE i \in 1..count(s) :
            /\ s.combatants[i].id = id
            /\ \A j \in 1..(i - 1) : s.combatants[j].id # id) - 1
    ELSE -1

\* The sign-carrying result of the comparator: a negative value puts ca first.
compare_combatants(ca, cb) ==
    IF cb.initiative # ca.initiative THEN Sub32(cb.initiative, ca.initiative)
    ELSE IF cb.dex # ca.dex THEN Sub32(cb.dex, ca.dex)
    ELSE Sub32(ca.id, cb.id)

\* qsort with compare_combatants, as an insertion sort: an element moves left
\* past every element the comparator puts after it.
RECURSIVE InsertByCompare(_, _)
InsertByCompare(sorted, c) ==
    IF sorted = <<>> THEN <<c>>
    ELSE IF compare_combatants(Last(sorted), c) <= 0 THEN Append(sorted, c)
    ELSE Append(InsertByCompare(Front(sorted), c), Last(sorted))

RECURSIVE qsort(_)
qsort(cs) ==
    IF cs = <<>> THEN <<>>
    ELSE InsertByCompare(qsort(Front(cs)), Last(cs))

sort_combatants(s) ==
    IF count(s) <= 1 THEN s
    ELSE [s EXCEPT !.combatants = qsort(@)]

\* One entry of the combat log; the message is the format string's name.
log_action(s, message) ==
    [s EXCEPT !.combat_log =
        Append(@, [round |-> s.round, turn_id |-> s.current_turn_id,
                   message |-> message])]

(***************************************************************************)
(* Undo.                                                                   *)
(***************************************************************************)
\* Snapshot with the selection taken from the turn cursor.
Snapshot_SelectionLost(s) ==
    [combatants |-> SubSeq(s.combatants, 1, count(s)), count |-> count(s),
     current_turn_id |-> s.current_turn_id, selected_id |-> s.current_turn_id,
     round |-> s.round]

Snapshot(s) ==
    [combatants |-> SubSeq(s.combatants, 1, count(s)), count |-> count(s),
     current_turn_id |-> s.current_turn_id, selected_id |-> s.selected_id,
     round |-> s.round]

\* save_undo_state that makes room by dropping the newest snapshot.
save_undo_state_DropsNewest(s) ==
    LET kept == IF undo_count(s) >= MAX_UNDO_STACK
                THEN SubSeq(s.undo_stack, 1, MAX_UNDO_STACK - 1)
                ELSE s.undo_stack
    IN  [s EXCEPT !.undo_stack = Append(kept, Snapshot(s))]

save_undo_state(s) ==
    LET kept == IF undo_count(s) >= MAX_UNDO_STACK
                THEN SubSeq(s.undo_stack, 2, MAX_UNDO_STACK)
                ELSE s.undo_stack
    IN  [s EXCEPT !.undo_stack = Append(kept, Snapshot(s))]

\* undo_last_action that logs and resets the round when there is nothing
\* to undo.
undo_last_action_EmptyLogged(s) ==
    IF undo_count(s) = 0 THEN log_action([s EXCEPT !.round = 1], "Action UNDONE")
    ELSE LET prev_state == Last(s.undo_stack)
             restored == [s EXCEPT !.undo_stack = Front(@),
                                   !.count = prev_state.count,
                                   !.combatants = SubSeq(prev_state.combatants, 1, prev_state.count),
                                   !.current_turn_id = prev_state.current_turn_id,
                                   !.selected_id = prev_state.selected_id,
                                   !.round = prev_state.round]
         IN  log_action(restored, "Action UNDONE")

\* undo_last_action that leaves the state it undoes on the stack, as a
\* redo would need it.
undo_last_action_Redoable(s) ==
    IF undo_count(s) = 0 THEN s
    ELSE LET prev_state == Last(s.undo_stack)
             restored == [s EXCEPT !.undo_stack = Append(Front(@), Snapshot(s)),
                                   !.count = prev_state.count,
                                   !.combatants = SubSeq(prev_state.combatants, 1, prev_state.count),
                                   !.current_turn_id = prev_state.current_turn_id,
                                   !.selected_id = prev_state.selected_id,
                                   !.round = prev_state.round]
         IN  log_action(restored, "Action UNDONE")

undo_last_action(s) ==
    IF undo_count(s) = 0 THEN s
    ELSE LET prev_state == Last(s.undo_stack)
             restored == [s EXCEPT !.undo_stack = Front(@),
                                   !.count = prev_state.count,
                                   !.combatants = SubSeq(prev_state.combatants, 1, prev_state.count),
                                   !.current_turn_id = prev_state.current_turn_id,
                                   !.selected_id = prev_state.selected_id,
                                   !.round = prev_state.round]
         IN  log_action(restored, "Action UNDONE")

(***************************************************************************)
(* Text.  A name is a sequence of characters; the prompts of the model     *)
(* type letters, digits and spaces.                                        *)
(***************************************************************************)
DigitChars == <<"0", "1", "2", "3", "4", "5", "6", "7", "8", "9">>

isdigit(ch) == \E d \in 1..10 : DigitChars[d] = ch

isspace(ch) == ch = " "

DigitValue(ch) == (CHOOSE d \in 1..10 : DigitChars[d] = ch) - 1

\* The loops "while (len > 0 && isspace(name[len - 1])) name[--len] = 0".
RECURSIVE TrimTrailingSpace(_)
TrimTrailingSpace(name) ==
    IF Len(name) > 0 /\ isspace(Last(name)) THEN TrimTrailingSpace(Front(name))
    ELSE name

\* The number of leading characters left once the trailing digits are cut.
RECURSIVE TrailingNumStart(_, _)
TrailingNumStart(name, k) ==
    IF k > 0 /\ isdigit(name[k]) THEN TrailingNumStart(name, k - 1) ELSE k

\* snprintf(dst, NAME_LENGTH, ...): at most NAME_LENGTH - 1 characters.
Truncate(text, n) == IF Len(text) > n THEN SubSeq(text, 1, n) ELSE text

\* printf's %d of a positive number.
RECURSIVE ToDecimal(_)
ToDecimal(n) ==
    IF n < 10 THEN <<DigitChars[n + 1]>>
    ELSE Append(ToDecimal(n \div 10), DigitChars[(n % 10) + 1])

RECURSIVE DecimalValue(_)
DecimalValue(digits) ==
    IF digits = <<>> THEN 0
    ELSE 10 * DecimalValue(Front(digits)) + DigitValue(Last(digits))

RECURSIVE SkipSpace(_)
SkipSpace(text) ==
    IF Len(text) > 0 /\ isspace(text[1]) THEN SkipSpace(Tail(text)) ELSE text

\* strtol(num_start, &endptr, 10) together with the test that follows it in
\* duplicate_combatant: the number parsed if the whole rest is one positive
\* number, 0 otherwise.
ParseSuffix(rest) ==
    LET digits == SkipSpace(rest)
    IN  IF digits # <<>> /\ \A i \in 1..Len(digits) : isdigit(digits[i])
        THEN DecimalValue(digits)
        ELSE 0

\* The base name duplicate_combatant derives from the source's name.
BaseName(name) ==
    LET len == Len(name)
        trailing_num_start == TrailingNumStart(name, len)
        base_end == IF trailing_num_start > 0 /\ isspace(name[trailing_num_start])
                    THEN trailing_num_start - 1
                    ELSE trailing_num_start
        stripped == IF trailing_num_start < len THEN SubSeq(name, 1, base_end)
                    ELSE name
    IN  Truncate(TrimTrailingSpace(stripped), max_base_len)

\* The number an existing name carries after "base_name ", or 0.
SuffixNumber(existing_name, base_name) ==
    LET base_name_len == Len(base_name)
    IN  IF /\ Len(existing_name) > base_name_len
           /\ SubSeq(existing_name, 1, base_name_len) = base_name
           /\ existing_name[base_name_len + 1] = " "
        THEN ParseSuffix(SubSeq(existing_name, base_name_len + 2, Len(existing_name)))
        ELSE 0

NumberedName(base_name, n) ==
    Truncate(Truncate(base_name, max_base_len) \o <<" ">> \o ToDecimal(n), NAME_LENGTH - 1)

(***************************************************************************)
(* Prompts.                                                                *)
(***************************************************************************)
\* get_input_int accepts a typed number within [min_val, max_val].
get_input_int(value, min_val, max_val) == value >= min_val /\ value <= max_val

(***************************************************************************)
(* add_combatant.  in: [cancel, type, name, initiative, dex, max_hp].      *)
(***************************************************************************)
\* An id taken from the roster's size.
FreshId_FromCount(s) == count(s) + 1

\* "if (next_id == INT_MAX) next_id = 1; c.id = next_id++".
FreshId(s) == IF s.next_id = INT_MAX THEN 1 ELSE s.next_id

\* add_combatant without the test for a full list.
add_combatant_NoCapacityTest(s, in) ==
    IF in.cancel THEN s
    ELSE IF Len(TrimTrailingSpace(in.name)) = 0 THEN s
    ELSE IF ~get_input_int(in.max_hp, 1, INT_MAX) THEN s
    ELSE
      LET c == NewCombatant(FreshId(s), TrimTrailingSpace(in.name), in.type,
                            in.initiative, in.dex, in.max_hp)
          s1 == [s EXCEPT !.next_id = FreshId(s) + 1,
                          !.combatants = Append(@, c),
                          !.count = @ + 1,
                          !.selected_id = c.id,
                          !.current_turn_id = IF count(s) + 1 = 1 THEN c.id ELSE @]
          s2 == sort_combatants(s1)
          s3 == IF s2.round = 1 /\ count(s2) > 0
                THEN [s2 EXCEPT !.current_turn_id = s2.combatants[1].id]
                ELSE s2
      IN  log_action(s3, "Added")

add_combatant(s, in) ==
    IF count(s) >= MAX_COMBATANTS THEN s
    ELSE IF in.cancel THEN s
    ELSE IF Len(TrimTrailingSpace(in.name)) = 0 THEN s
    ELSE IF ~get_input_int(in.max_hp, 1, INT_MAX) THEN s
    ELSE
      LET c == NewCombatant(FreshId(s), TrimTrailingSpace(in.name), in.type,
                            in.initiative, in.dex, in.max_hp)
          s1 == [s EXCEPT !.next_id = FreshId(s) + 1,
                          !.combatants = Append(@, c),
                          !.count = @ + 1,
                          !.selected_id = c.id,
                          !.current_turn_id = IF count(s) + 1 = 1 THEN c.id ELSE @]
          s2 == sort_combatants(s1)
          s3 == IF s2.round = 1 /\ count(s2) > 0
                THEN [s2 EXCEPT !.current_turn_id = s2.combatants[1].id]
                ELSE s2
      IN  log_action(s3, "Added")

(***************************************************************************)
(* duplicate_combatant.  in: [cancel, num_copies, rolls]; rolls[i] is the  *)
(* d20 rolled for copy i.                                                  *)
(***************************************************************************)
Max(S) == CHOOSE m \in S : \A x \in S : x <= m

\* One pass of the copy loop: copy i (0-based) of the source, appended.
RECURSIVE AppendCopies(_, _, _, _, _, _)
AppendCopies(s, source, base_name, start_num, rolls, i) ==
    IF i >= Len(rolls) \/ count(s) >= MAX_COMBATANTS THEN s
    ELSE
      LET c == [source EXCEPT !.id = FreshId(s),
                              !.name = NumberedName(base_name, start_num + i),
                              !.initiative = Add32(rolls[i + 1], source.dex),
                              !.hp = source.max_hp,
                              !.conditions = {},
                              !.condition_duration = NoDurations,
                              !.death_save_successes = 0,
                              !.death_save_failures = 0,
                              !.is_stable = 0,
                              !.is_dead = 0]
          s1 == [s EXCEPT !.next_id = FreshId(s) + 1,
                          !.combatants = Append(@, c),
                          !.count = @ + 1]
      IN  AppendCopies(s1, source, base_name, start_num, rolls, i + 1)

duplicate_combatant(s, in) ==
    LET idx == get_index_by_id(s, s.selected_id) IN
    IF count(s) = 0 \/ idx = -1 THEN s
    ELSE IF MAX_COMBATANTS - count(s) <= 0 THEN s
    ELSE IF in.cancel THEN s
    ELSE IF ~get_input_int(in.num_copies, 1, MAX_COMBATANTS - count(s)) THEN s
    ELSE
      LET source == s.combatants[idx + 1]
          base_name == BaseName(source.name)
          numbers == {SuffixNumber(s.combatants[i].name, base_name) : i \in 1..count(s)}
          highest_num == Max(numbers \cup {0})
          original_has_number == SuffixNumber(source.name, base_name) > 0
          renamed == IF original_has_number THEN source
                     ELSE [source EXCEPT !.name = NumberedName(base_name, 1)]
          start_num == IF original_has_number THEN highest_num + 1
                       ELSE IF highest_num > 0 THEN highest_num + 1 ELSE 2
          s1 == [s EXCEPT !.combatants[idx + 1] = renamed]
          s2 == AppendCopies(s1, renamed, base_name, start_num,
                             SubSeq(in.rolls, 1, in.num_copies), 0)
          s3 == sort_combatants(s2)
          s4 == IF count(s3) > 0
                THEN [s3 EXCEPT !.selected_id = s3.combatants[count(s3)].id]
                ELSE s3
      IN  log_action(s4, "Created duplicates")

(***************************************************************************)
(* Death saves.                                                            *)
(***************************************************************************)
SetCombatant(s, idx, c) == [s EXCEPT !.combatants[idx + 1] = c]

reset_death_saves(c) ==
    [c EXCEPT !.death_save_successes = 0, !.death_save_failures = 0, !.is_stable = 0]

\* roll_death_save that counts a roll of exactly 10 as a failure.
roll_death_save_TenFails(s, idx, roll) ==
    LET c == s.combatants[idx + 1] IN
    IF c.type # TYPE_PLAYER THEN s
    ELSE IF c.hp > 0 \/ c.is_stable # 0 \/ c.is_dead # 0 THEN s
    ELSE IF roll = 20 THEN
      log_action(SetCombatant(s, idx,
          reset_death_saves([c EXCEPT !.hp = 1,
                                      !.conditions = @ \ {COND_UNCONSCIOUS}])),
          "NATURAL 20")
    ELSE IF roll = 1 THEN
      LET c1 == [c EXCEPT !.death_save_failures = @ + 2]
          s1 == log_action(SetCombatant(s, idx, c1), "NATURAL 1")
      IN  IF c1.death_save_failures >= 3
          THEN log_action(SetCombatant(s1, idx, [c1 EXCEPT !.is_dead = 1]), "has died")
          ELSE s1
    ELSE IF roll > 10 THEN
      LET c1 == [c EXCEPT !.death_save_successes = @ + 1]
          s1 == log_action(SetCombatant(s, idx, c1), "SUCCESS")
      IN  IF c1.death_save_successes >= 3
          THEN log_action(SetCombatant(s1, idx, [c1 EXCEPT !.is_stable = 1]), "now STABLE")
          ELSE s1
    ELSE
      LET c1 == [c EXCEPT !.death_save_failures = @ + 1]
          s1 == log_action(SetCombatant(s, idx, c1), "FAILURE")
      IN  IF c1.death_save_failures >= 3
          THEN log_action(SetCombatant(s1, idx, [c1 EXCEPT !.is_dead = 1]), "has died")
          ELSE s1

\* roll_death_save on combatants[idx] once the d20 shows roll.
\* roll_death_save where a plain success (10..19) is reported and not
\* counted.
roll_death_save_SuccessLost(s, idx, roll) ==
    LET c == s.combatants[idx + 1] IN
    IF c.type # TYPE_PLAYER THEN s
    ELSE IF c.hp > 0 \/ c.is_stable # 0 \/ c.is_dead # 0 THEN s
    ELSE IF roll = 20 THEN
      log_action(SetCombatant(s, idx,
          reset_death_saves([c EXCEPT !.hp = 1,
                                      !.conditions = @ \ {COND_UNCONSCIOUS}])),
          "NATURAL 20")
    ELSE IF roll = 1 THEN
      LET c1 == [c EXCEPT !.death_save_failures = @ + 2]
          s1 == log_action(SetCombatant(s, idx, c1), "NATURAL 1")
      IN  IF c1.death_save_failures >= 3
          THEN log_action(SetCombatant(s1, idx, [c1 EXCEPT !.is_dead = 1]), "has died")
          ELSE s1
    ELSE IF roll >= 10 THEN log_action(s, "SUCCESS")
    ELSE
      LET c1 == [c EXCEPT !.death_save_failures = @ + 1]
          s1 == log_action(SetCombatant(s, idx, c1), "FAILURE")
      IN  IF c1.death_save_failures >= 3
          THEN log_action(SetCombatant(s1, idx, [c1 EXCEPT !.is_dead = 1]), "has died")
          ELSE s1

roll_death_save(s, idx, roll) ==
    LET c == s.combatants[idx + 1] IN
    IF c.type # TYPE_PLAYER THEN s
    ELSE IF c.hp > 0 \/ c.is_stable # 0 \/ c.is_dead # 0 THEN s
    ELSE IF roll = 20 THEN
      log_action(SetCombatant(s, idx,
          reset_death_saves([c EXCEPT !.hp = 1,
                                      !.conditions = @ \ {COND_UNCONSCIOUS}])),
          "NATURAL 20")
    ELSE IF roll = 1 THEN
      LET c1 == [c EXCEPT !.death_save_failures = @ + 2]
          s1 == log_action(SetCombatant(s, idx, c1), "NATURAL 1")
      IN  IF c1.death_save_failures >= 3
          THEN log_action(SetCombatant(s1, idx, [c1 EXCEPT !.is_dead = 1]), "has died")
          ELSE s1
    ELSE IF roll >= 10 THEN
      LET c1 == [c EXCEPT !.death_save_successes = @ + 1]
          s1 == log_action(SetCombatant(s, idx, c1), "SUCCESS")
      IN  IF c1.death_save_successes >= 3
          THEN log_action(SetCombatant(s1, idx, [c1 EXCEPT !.is_stable = 1]), "now STABLE")
          ELSE s1
    ELSE
      LET c1 == [c EXCEPT !.death_save_failures = @ + 1]
          s1 == log_action(SetCombatant(s, idx, c1), "FAILURE")
      IN  IF c1.death_save_failures >= 3
          THEN log_action(SetCombatant(s1, idx, [c1 EXCEPT !.is_dead = 1]), "has died")
          ELSE s1

\* The 'x' key: roll_death_save(state, NULL) rolls for the selected combatant.
roll_death_save_selected(s, roll) ==
    LET idx == get_index_by_id(s, s.selected_id) IN
    IF idx = -1 THEN s ELSE roll_death_save(s, idx, roll)

\* handle_damage_at_zero_hp that leaves is_stable as it was.
handle_damage_at_zero_hp_StaysStable(s, idx, is_critical) ==
    LET c == s.combatants[idx + 1] IN
    IF c.type # TYPE_PLAYER \/ c.hp > 0 \/ c.is_dead # 0 THEN s
    ELSE
      LET c1 == [c EXCEPT !.death_save_failures = IF is_critical THEN @ + 2 ELSE @ + 1]
          s1 == log_action(SetCombatant(s, idx, c1),
                           IF is_critical THEN "CRITICAL damage at 0 HP"
                           ELSE "damage at 0 HP")
      IN  IF c1.death_save_failures >= 3
          THEN log_action(SetCombatant(s1, idx, [c1 EXCEPT !.is_dead = 1]), "has died")
          ELSE s1

handle_damage_at_zero_hp(s, idx, is_critical) ==
    LET c == s.combatants[idx + 1] IN
    IF c.type # TYPE_PLAYER \/ c.hp > 0 \/ c.is_dead # 0 THEN s
    ELSE
      LET c1 == [c EXCEPT !.death_save_failures = IF is_critical THEN @ + 2 ELSE @ + 1]
          s1 == log_action(SetCombatant(s, idx, c1),
                           IF is_critical THEN "CRITICAL damage at 0 HP"
                           ELSE "damage at 0 HP")
          c2 == [c1 EXCEPT !.is_stable = 0]
          s2 == IF c1.is_stable # 0
                THEN log_action(SetCombatant(s1, idx, c2), "no longer stable")
                ELSE s1
      IN  IF c2.death_save_failures >= 3
          THEN log_action(SetCombatant(s2, idx, [c2 EXCEPT !.is_dead = 1]), "has died")
          ELSE s2

\* stabilize_combatant that keeps the counters.
stabilize_combatant_CountersKept(s) ==
    LET idx == get_index_by_id(s, s.selected_id) IN
    IF idx = -1 THEN s
    ELSE
      LET c == s.combatants[idx + 1] IN
      IF c.type # TYPE_PLAYER THEN s
      ELSE IF c.hp > 0 THEN s
      ELSE IF c.is_dead # 0 THEN s
      ELSE IF c.is_stable # 0 THEN s
      ELSE log_action(SetCombatant(s, idx, [c EXCEPT !.is_stable = 1]),
                      "has been stabilized")

stabilize_combatant(s) ==
    LET idx == get_index_by_id(s, s.selected_id) IN
    IF idx = -1 THEN s
    ELSE
      LET c == s.combatants[idx + 1] IN
      IF c.type # TYPE_PLAYER THEN s
      ELSE IF c.hp > 0 THEN s
      ELSE IF c.is_dead # 0 THEN s
      ELSE IF c.is_stable # 0 THEN s
      ELSE log_action(SetCombatant(s, idx, [reset_death_saves(c) EXCEPT !.is_stable = 1]),
                      "has been stabilized")

(***************************************************************************)
(* remove_combatant.  confirm: the answer to "Delete ...? (y/n)".          *)
(***************************************************************************)
RemoveAt(cs, idx) == SubSeq(cs, 1, idx) \o SubSeq(cs, idx + 2, Len(cs))

\* remove_combatant without the reassignment of current_turn_id.
remove_combatant_TurnKept(s, confirm) ==
    LET idx == get_index_by_id(s, s.selected_id) IN
    IF count(s) = 0 \/ idx = -1 THEN s
    ELSE IF ~confirm THEN s
    ELSE
      LET s1 == log_action(s, "Removed")
          s3 == [s1 EXCEPT !.combatants = RemoveAt(@, idx), !.count = @ - 1]
          idx2 == IF idx >= count(s3) THEN count(s3) - 1 ELSE idx
      IN  IF count(s3) > 0
          THEN [s3 EXCEPT !.selected_id = s3.combatants[idx2 + 1].id]
          ELSE [s3 EXCEPT !.selected_id = -1, !.current_turn_id = -1, !.round = 1]

remove_combatant(s, confirm) ==
    LET idx == get_index_by_id(s, s.selected_id) IN
    IF count(s) = 0 \/ idx = -1 THEN s
    ELSE IF ~confirm THEN s
    ELSE
      LET s1 == log_action(s, "Removed")
          next_idx == (idx + 1) % count(s)
          s2 == IF s1.current_turn_id = s1.selected_id
                THEN [s1 EXCEPT !.current_turn_id =
                        IF count(s) > 1 THEN s.combatants[next_idx + 1].id ELSE -1]
                ELSE s1
          s3 == [s2 EXCEPT !.combatants = RemoveAt(@, idx), !.count = @ - 1]
          idx2 == IF idx >= count(s3) THEN count(s3) - 1 ELSE idx
      IN  IF count(s3) > 0
          THEN [s3 EXCEPT !.selected_id = s3.combatants[idx2 + 1].id]
          ELSE [s3 EXCEPT !.selected_id = -1, !.current_turn_id = -1, !.round = 1]

(***************************************************************************)
(* edit_hp.  in: [cancel, change, crit]; crit answers "Critical hit?".     *)
(***************************************************************************)
\* The clamp without its floor.
ClampHp_NoFloor(hp, max_hp) == IF hp > max_hp THEN max_hp ELSE hp

\* "if (c->hp > c->max_hp) c->hp = c->max_hp; if (c->hp < 0) c->hp = 0".
ClampHp(hp, max_hp) ==
    LET capped == IF hp > max_hp THEN max_hp ELSE hp
    IN  IF capped < 0 THEN 0 ELSE capped

edit_hp(s, in) ==
    LET idx == get_index_by_id(s, s.selected_id) IN
    IF idx = -1 THEN s
    ELSE IF in.cancel THEN s
    ELSE
      LET c == s.combatants[idx + 1]
          change == in.change
          old_hp == c.hp
          damage == IF change < 0 THEN Sub32(0, change) ELSE 0
      IN
      IF /\ damage > 0 /\ c.hp > 0 /\ c.hp - damage <= 0
         /\ damage - c.hp >= c.max_hp
      THEN log_action(SetCombatant(s, idx,
               reset_death_saves([c EXCEPT !.hp = 0, !.is_dead = 1,
                                           !.conditions = @ \cup {COND_UNCONSCIOUS}])),
               "died instantly")
      ELSE
        LET c1 == [c EXCEPT !.hp = ClampHp(Add32(c.hp, change), c.max_hp)]
            s1 == SetCombatant(s, idx, c1)
            s2 == IF damage > 0 /\ old_hp <= 0 /\ c1.type = TYPE_PLAYER /\ c1.is_dead = 0
                  THEN handle_damage_at_zero_hp(s1, idx, c1.hp = 0 /\ in.crit)
                  ELSE s1
            s3 == IF change > 0 THEN log_action(s2, "healed")
                  ELSE IF change < 0 THEN log_action(s2, "took damage")
                  ELSE s2
            c3 == s3.combatants[idx + 1]
        IN
        IF c3.type # TYPE_PLAYER THEN s3
        ELSE IF c3.hp = 0 /\ old_hp > 0 THEN
          IF COND_UNCONSCIOUS \notin c3.conditions
          THEN log_action(SetCombatant(s3, idx,
                   reset_death_saves([c3 EXCEPT !.conditions = @ \cup {COND_UNCONSCIOUS}])),
                   "is UNCONSCIOUS")
          ELSE s3
        ELSE IF c3.hp > 0 /\ old_hp <= 0 THEN
          IF COND_UNCONSCIOUS \in c3.conditions
          THEN log_action(SetCombatant(s3, idx,
                   [reset_death_saves([c3 EXCEPT !.conditions = @ \ {COND_UNCONSCIOUS}])
                       EXCEPT !.is_stable = 0, !.is_dead = 0]),
                   "no longer unconscious")
          ELSE s3
        ELSE s3

(***************************************************************************)
(* reroll_initiative.  in: [cancel, val].                                  *)
(***************************************************************************)
\* reroll_initiative that moves the turn to the top of the roster in every
\* round.
reroll_initiative_TurnToTop(s, in) ==
    LET idx == get_index_by_id(s, s.selected_id) IN
    IF idx = -1 THEN s
    ELSE IF in.cancel THEN s
    ELSE
      LET s1 == sort_combatants(
                  SetCombatant(s, idx, [s.combatants[idx + 1] EXCEPT !.initiative = in.val]))
          s2 == IF count(s1) > 0
                THEN [s1 EXCEPT !.current_turn_id = s1.combatants[1].id]
                ELSE s1
      IN  log_action(s2, "rerolled initiative")

reroll_initiative(s, in) ==
    LET idx == get_index_by_id(s, s.selected_id) IN
    IF idx = -1 THEN s
    ELSE IF in.cancel THEN s
    ELSE
      LET s1 == sort_combatants(
                  SetCombatant(s, idx, [s.combatants[idx + 1] EXCEPT !.initiative = in.val]))
          s2 == IF s1.round = 1 /\ count(s1) > 0
                THEN [s1 EXCEPT !.current_turn_id = s1.combatants[1].id]
                ELSE s1
      IN  log_action(s2, "rerolled initiative")

(***************************************************************************)
(* Turns.                                                                  *)
(***************************************************************************)
\* The inner loop of decrement_condition_durations without the removal of a
\* condition whose duration reaches 0.
DecrementDurations_BitKept(c) ==
    [c EXCEPT !.condition_duration =
                  [j \in Conditions |-> IF @[j] > 0 THEN @[j] - 1 ELSE @[j]]]

\* The inner loop of decrement_condition_durations for one combatant.
DecrementDurations(c) ==
    LET expired == {j \in Conditions : c.condition_duration[j] = 1}
    IN  [c EXCEPT !.condition_duration =
                      [j \in Conditions |-> IF @[j] > 0 THEN @[j] - 1 ELSE @[j]],
                  !.conditions = @ \ expired]

\* log_action is called once for every duration that reaches 0.
RECURSIVE LogTimes(_, _, _)
LogTimes(s, message, n) ==
    IF n = 0 THEN s ELSE LogTimes(log_action(s, message), message, n - 1)

RECURSIVE SumExpired(_, _)
SumExpired(cs, i) ==
    IF i > Len(cs) THEN 0
    ELSE Cardinality({j \in Conditions : cs[i].condition_duration[j] = 1})
         + SumExpired(cs, i + 1)

decrement_condition_durations(s) ==
    LogTimes([s EXCEPT !.combatants =
                 [i \in 1..Len(@) |-> IF i <= count(s) THEN DecrementDurations(@[i]) ELSE @[i]]],
             "duration ended",
             SumExpired(SubSeq(s.combatants, 1, count(s)), 1))

\* next_turn that wraps without counting the round.
next_turn_RoundNotCounted(s, roll) ==
    IF count(s) = 0 THEN s
    ELSE
      LET found == get_index_by_id(s, s.current_turn_id)
          advanced == IF found = -1 THEN 0 ELSE found + 1
          idx == IF advanced >= count(s) THEN 0 ELSE advanced
          s1 == IF advanced >= count(s)
                THEN log_action(decrement_condition_durations(s), "START OF ROUND")
                ELSE s
          s2 == [s1 EXCEPT !.current_turn_id = s1.combatants[idx + 1].id,
                           !.selected_id = s1.combatants[idx + 1].id]
          s3 == log_action(s2, "turn")
          c == s3.combatants[idx + 1]
      IN  IF c.type = TYPE_PLAYER /\ c.hp <= 0 /\ c.is_stable = 0 /\ c.is_dead = 0
          THEN roll_death_save(s3, idx, roll)
          ELSE s3

\* next_turn; roll is the d20 of the death save the new turn may start with.
next_turn(s, roll) ==
    IF count(s) = 0 THEN s
    ELSE
      LET found == get_index_by_id(s, s.current_turn_id)
          advanced == IF found = -1 THEN 0 ELSE found + 1
          idx == IF advanced >= count(s) THEN 0 ELSE advanced
          s1 == IF advanced >= count(s)
                THEN log_action(
                       decrement_condition_durations([s EXCEPT !.round = Add32(@, 1)]),
                       "START OF ROUND")
                ELSE s
          s2 == [s1 EXCEPT !.current_turn_id = s1.combatants[idx + 1].id,
                           !.selected_id = s1.combatants[idx + 1].id]
          s3 == log_action(s2, "turn")
          c == s3.combatants[idx + 1]
      IN  IF c.type = TYPE_PLAYER /\ c.hp <= 0 /\ c.is_stable = 0 /\ c.is_dead = 0
          THEN roll_death_save(s3, idx, roll)
          ELSE s3

prev_turn(s) ==
    IF count(s) = 0 THEN s
    ELSE
      LET found == get_index_by_id(s, s.current_turn_id)
          retreated == IF found = -1 THEN 0 ELSE found - 1
          idx == IF retreated < 0 THEN count(s) - 1 ELSE retreated
          s1 == IF retreated < 0 /\ s.round > 1
                THEN log_action([s EXCEPT !.round = @ - 1], "END OF ROUND (Revert)")
                ELSE s
          s2 == [s1 EXCEPT !.current_turn_id = s1.combatants[idx + 1].id,
                           !.selected_id = s1.combatants[idx + 1].id]
      IN  log_action(s2, "Turn reverted")

move_selection(s, direction) ==
    LET idx == get_index_by_id(s, s.selected_id) IN
    IF idx = -1
    THEN IF count(s) > 0 THEN [s EXCEPT !.selected_id = s.combatants[1].id] ELSE s
    ELSE [s EXCEPT !.selected_id =
             s.combatants[((idx + direction + count(s)) % count(s)) + 1].id]

(***************************************************************************)
(* The condition menu.                                                     *)
(***************************************************************************)
\* toggle_condition without the call of save_undo_state.
toggle_condition_NoSnapshot(s) ==
    IF count(s) = 0 THEN s
    ELSE IF get_index_by_id(s, s.selected_id) = -1 THEN s
    ELSE [s EXCEPT !.mode = MODE_CONDITIONS,
                   !.condition_menu_cursor = 0,
                   !.condition_menu_target_id = s.selected_id]

\* The 'c' key: toggle_condition opens the menu and pushes the snapshot.
toggle_condition(s) ==
    IF count(s) = 0 THEN s
    ELSE IF get_index_by_id(s, s.selected_id) = -1 THEN s
    ELSE [save_undo_state(s) EXCEPT !.mode = MODE_CONDITIONS,
                                    !.condition_menu_cursor = 0,
                                    !.condition_menu_target_id = s.selected_id]

\* handle_condition_menu_input where a toggle that turns the condition off
\* leaves its duration, and a duration is accepted for an inactive condition.
handle_condition_menu_input_DurationKept(s, ch, in) ==
    LET idx == get_index_by_id(s, s.condition_menu_target_id) IN
    IF idx = -1 THEN [s EXCEPT !.mode = MODE_COMBAT]
    ELSE
      LET c == s.combatants[idx + 1]
          cursor == s.condition_menu_cursor
      IN
      CASE ch = "up" ->
             [s EXCEPT !.condition_menu_cursor = (cursor - 1 + NUM_CONDITIONS) % NUM_CONDITIONS]
        [] ch = "down" ->
             [s EXCEPT !.condition_menu_cursor = (cursor + 1) % NUM_CONDITIONS]
        [] ch = "toggle" ->
             IF cursor \notin c.conditions
             THEN log_action(SetCombatant(s, idx, [c EXCEPT !.conditions = @ \cup {cursor}]),
                             "applied")
             ELSE log_action(SetCombatant(s, idx, [c EXCEPT !.conditions = @ \ {cursor}]),
                             "removed")
        [] ch = "duration" ->
             IF ~in.cancel /\ get_input_int(in.dur, 0, INT_MAX)
             THEN log_action(SetCombatant(s, idx,
                                 [c EXCEPT !.condition_duration[cursor] = in.dur]),
                             "duration set")
             ELSE s
        [] ch = "close" -> [s EXCEPT !.mode = MODE_COMBAT]
        [] OTHER -> s

\* handle_condition_menu_input.  ch is the key: "up", "down", "toggle",
\* "duration" or "close"; in: [cancel, dur] is what the duration prompt gets.
handle_condition_menu_input(s, ch, in) ==
    LET idx == get_index_by_id(s, s.condition_menu_target_id) IN
    IF idx = -1 THEN [s EXCEPT !.mode = MODE_COMBAT]
    ELSE
      LET c == s.combatants[idx + 1]
          cursor == s.condition_menu_cursor
      IN
      CASE ch = "up" ->
             [s EXCEPT !.condition_menu_cursor = (cursor - 1 + NUM_CONDITIONS) % NUM_CONDITIONS]
        [] ch = "down" ->
             [s EXCEPT !.condition_menu_cursor = (cursor + 1) % NUM_CONDITIONS]
        [] ch = "toggle" ->
             IF cursor \notin c.conditions
             THEN log_action(SetCombatant(s, idx, [c EXCEPT !.conditions = @ \cup {cursor}]),
                             "applied")
             ELSE log_action(SetCombatant(s, idx,
                                 [c EXCEPT !.conditions = @ \ {cursor},
                                           !.condition_duration[cursor] = 0]),
                             "removed")
        [] ch = "duration" ->
             IF cursor \in c.conditions
             THEN IF ~in.cancel /\ get_input_int(in.dur, 0, INT_MAX)
                  THEN log_action(SetCombatant(s, idx,
                                      [c EXCEPT !.condition_duration[cursor] = in.dur]),
                                  "duration set")
                  ELSE s
             ELSE s
        [] ch = "close" -> [s EXCEPT !.mode = MODE_COMBAT]
        [] OTHER -> s

(***************************************************************************)
(* The combat log export.  sink is what the export file does: "unopened"   *)
(* (fopen fails), "written" (every fprintf and fclose works) or "full"     *)
(* (fopen works and no write reaches the file; the return values of        *)
(* fprintf and fclose are not looked at).                                  *)
(***************************************************************************)
Sinks == {"unopened", "written", "full"}

\* A line of the export file that is not an entry of the log.
Banner(text) == [kind |-> "banner", round |-> 0, message |-> text]

\* The lines of one export: header, "[R%d] %s" per entry, footer.
ExportLines(s) ==
    <<Banner("================"), Banner("COMBAT LOG EXPORT"), Banner("================")>>
    \o [i \in 1..log_count(s) |-> [kind |-> "entry", round |-> s.combat_log[i].round,
                                   message |-> s.combat_log[i].message]]
    \o <<Banner("--- END OF LOG ---")>>

\* The export file after export_log.
exported(s, file, sink) ==
    IF log_count(s) = 0 THEN file
    ELSE IF sink = "written" THEN file \o ExportLines(s)
    ELSE file

export_log(s, sink) ==
    IF log_count(s) = 0 THEN s
    ELSE IF sink = "unopened" THEN s
    ELSE [s EXCEPT !.combat_log = <<>>]

(***************************************************************************)
(* Text of the save file.  A text is a sequence of one-character strings,  *)
(* as names are.                                                           *)
(***************************************************************************)
\* printf's %d.
FormatInt(n) ==
    IF n = INT_MIN THEN <<"-">> \o ToDecimal(INT_MAX \div 10) \o <<"8">>
    ELSE IF n < 0 THEN <<"-">> \o ToDecimal(-n)
    ELSE ToDecimal(n)

RECURSIVE DigitPrefixLen(_)
DigitPrefixLen(text) ==
    IF text # <<>> /\ isdigit(text[1]) THEN 1 + DigitPrefixLen(Tail(text)) ELSE 0

RECURSIVE DropZeros(_)
DropZeros(digits) ==
    IF Len(digits) > 1 /\ digits[1] = "0" THEN DropZeros(Tail(digits)) ELSE digits

\* strtol(str, &endptr, 10): leading white space, an optional sign, digits.
\* converted: digits were found; range: the value fits an int; val: the
\* value (0 if it does not fit); rest: the text from endptr on.
strtol(str) ==
    LET t == SkipSpace(str)
        neg == t # <<>> /\ t[1] = "-"
        body == IF t # <<>> /\ t[1] \in {"-", "+"} THEN Tail(t) ELSE t
        n == DigitPrefixLen(body)
        digits == DropZeros(SubSeq(body, 1, n))
        high == IF Len(digits) = 10 THEN DecimalValue(Front(digits)) ELSE 0
        low == IF Len(digits) = 10 THEN DigitValue(Last(digits)) ELSE 0
        fits == \/ Len(digits) < 10
                \/ /\ Len(digits) = 10
                   /\ \/ high < INT_MAX \div 10
                      \/ high = INT_MAX \div 10 /\ low <= (IF neg THEN 8 ELSE 7)
    IN  [converted |-> n > 0,
         range |-> fits,
         val |-> IF n = 0 \/ ~fits THEN 0
                 ELSE IF Len(digits) = 10 /\ neg /\ high = INT_MAX \div 10 /\ low = 8
                      THEN INT_MIN
                 ELSE IF neg THEN -DecimalValue(digits) ELSE DecimalValue(digits),
         rest |-> SubSeq(body, n + 1, Len(body))]

RECURSIVE SkipBlanks(_)
SkipBlanks(text) ==
    IF text # <<>> /\ text[1] \in {" ", "\t"} THEN SkipBlanks(Tail(text)) ELSE text

\* parse_int_safe: [ok, val].
parse_int_safe(str) ==
    LET r == strtol(str)
        endptr == SkipBlanks(r.rest)
    IN  IF str = <<>> \/ ~r.converted THEN [ok |-> FALSE, val |-> 0]
        ELSE IF endptr # <<>> /\ endptr[1] \notin {"\n", "\r"} THEN [ok |-> FALSE, val |-> 0]
        ELSE IF ~r.range THEN [ok |-> FALSE, val |-> 0]
        ELSE [ok |-> TRUE, val |-> r.val]

\* The pieces of a text between '|' characters, empty pieces included.
RECURSIVE SplitAtBar(_, _)
SplitAtBar(text, piece) ==
    IF text = <<>> THEN <<piece>>
    ELSE IF text[1] = "|" THEN <<piece>> \o SplitAtBar(Tail(text), <<>>)
    ELSE SplitAtBar(Tail(text), Append(piece, text[1]))

RECURSIVE Join(_)
Join(fields) ==
    IF fields = <<>> THEN <<>>
    ELSE IF Len(fields) = 1 THEN fields[1]
    ELSE fields[1] \o <<"|">> \o Join(Tail(fields))

\* The tokens strtok(line, "|") and strtok(NULL, "|") return on a line:
\* strtok never returns an empty token.
strtok(line) == SelectSeq(SplitAtBar(line, <<>>), LAMBDA piece : piece # <<>>)

\* c->conditions as the int "%d" prints, and the (uint16_t) of an int.
RECURSIVE MaskOf(_)
MaskOf(conds) ==
    IF conds = {} THEN 0
    ELSE LET j == CHOOSE x \in conds : TRUE
         IN  2^j + MaskOf(conds \ {j})

BitsOf(val) == {j \in 0..15 : ((val % 65536) \div 2^j) % 2 = 1}

(***************************************************************************)
(* The save file: kind is "absent" (fopen fails) or "present"; text holds  *)
(* its lines, each the characters up to and including the newline; read is *)
(* what load_state's fgets, sscanf, strtok and parse_int_safe make of that *)
(* text, worked out once per file: the header values converted and the     *)
(* combatants of the lines that are not skipped.                           *)
(***************************************************************************)
NoFile == [kind |-> "absent", text |-> <<>>, read |-> [values |-> <<>>, combatants |-> <<>>]]

\* The fprintf calls of save_state for combatants[i]: one line.
CombatantLine(c) ==
    Join(<<FormatInt(c.id), c.name, FormatInt(c.type), FormatInt(c.initiative),
           FormatInt(c.dex), FormatInt(c.max_hp), FormatInt(c.hp),
           FormatInt(MaskOf(c.conditions)), FormatInt(c.death_save_successes),
           FormatInt(c.death_save_failures), FormatInt(c.is_stable),
           FormatInt(c.is_dead)>>
         \o [j \in 1..NUM_CONDITIONS |-> FormatInt(c.condition_duration[j - 1])])
    \o <<"\n">>

HeaderLine(s) ==
    Join(<<FormatInt(s.round), FormatInt(s.next_id), FormatInt(count(s)),
           FormatInt(s.current_turn_id), FormatInt(s.selected_id)>>)
    \o <<"\n">>

\* memset(state->combatants, 0, ...): a zeroed Combatant.
ZeroCombatant ==
    [id |-> 0, name |-> <<>>, initiative |-> 0, dex |-> 0, max_hp |-> 0, hp |-> 0,
     type |-> TYPE_PLAYER, conditions |-> {}, condition_duration |-> NoDurations,
     death_save_successes |-> 0, death_save_failures |-> 0, is_stable |-> 0,
     is_dead |-> 0]

\* sscanf(line, "%d|%d|%d|%d|%d", ...): the values converted, in order.  A
\* conversion stops the scan when no number is found, and the scan stops
\* after a conversion that is not followed by '|'.
RECURSIVE ScanHeader(_, _)
ScanHeader(line, wanted) ==
    LET r == strtol(line) IN
    IF wanted = 0 \/ ~r.converted THEN <<>>
    ELSE IF r.rest # <<>> /\ r.rest[1] = "|"
         THEN <<r.val>> \o ScanHeader(Tail(r.rest), wanted - 1)
         ELSE <<r.val>>

\* The header fields sscanf assigned before it stopped.
ReadHeader(s, values) ==
    [s EXCEPT !.round = IF Len(values) >= 1 THEN values[1] ELSE @,
              !.next_id = IF Len(values) >= 2 THEN values[2] ELSE @,
              !.count = IF Len(values) >= 3 THEN values[3] ELSE @,
              !.current_turn_id = IF Len(values) >= 4 THEN values[4] ELSE @,
              !.selected_id = IF Len(values) >= 5 THEN values[5] ELSE @]

\* The slots of the zeroed array that the count read from the header covers.
ZeroedRoster(n) ==
    [i \in 1..(IF n < 0 THEN 0 ELSE IF n > MAX_COMBATANTS THEN MAX_COMBATANTS ELSE n)
       |-> ZeroCombatant]

\* One pass of the while loop of load_state over a combatant line: ok is
\* FALSE when the entry is skipped ("continue"), c is the slot when idx++
\* is reached.  An optional field defaults to 0; a duration whose token is
\* missing keeps the 0 of the memset.
ParseCombatant(line) ==
    LET Entry(tok, field) ==
          LET Value(k) == IF k <= Len(tok) THEN field[k].val ELSE 0
              Optional(k) == IF k <= Len(tok) /\ field[k].ok THEN field[k].val ELSE 0
          IN  [ok |-> /\ Len(tok) >= 8
                      /\ \A k \in {1} \cup 3..8 : field[k].ok,
               c |-> [id |-> Value(1),
                      name |-> IF Len(tok) >= 2 THEN Truncate(tok[2], NAME_LENGTH - 1)
                               ELSE <<>>,
                      type |-> Value(3),
                      initiative |-> Value(4),
                      dex |-> Value(5),
                      max_hp |-> Value(6),
                      hp |-> Value(7),
                      conditions |-> BitsOf(Value(8)),
                      death_save_successes |-> Optional(9),
                      death_save_failures |-> Optional(10),
                      is_stable |-> Optional(11),
                      is_dead |-> Optional(12),
                      condition_duration |-> [j \in Conditions |-> Optional(13 + j)]]]
        Parsed(tok) == [k \in 1..Len(tok) |-> parse_int_safe(tok[k])]
    IN  Entry(strtok(line), Parsed(strtok(line)))

\* The while loop: the combatants read from the lines, at most MAX_COMBATANTS.
RECURSIVE ReadCombatants(_, _)
ReadCombatants(lines, read) ==
    LET Kept(p) == IF p.ok THEN Append(read, p.c) ELSE read
    IN  IF lines = <<>> \/ Len(read) >= MAX_COMBATANTS THEN read
        ELSE ReadCombatants(Tail(lines), Kept(ParseCombatant(lines[1])))

ReadText(text) ==
    [values |-> IF text = <<>> THEN <<>> ELSE ScanHeader(text[1], 5),
     combatants |-> IF text = <<>> THEN <<>> ELSE ReadCombatants(Tail(text), <<>>)]

FileOf(text) == [kind |-> "present", text |-> text, read |-> ReadText(text)]

\* What save_state writes when fopen, every fprintf and fclose succeed.
SavedFile(s) ==
    FileOf(<<HeaderLine(s)>> \o [i \in 1..count(s) |-> CombatantLine(s.combatants[i])])

\* save_state.  opened: whether fopen(path, "w") works.
save_state(s, file, opened) == IF opened THEN SavedFile(s) ELSE file

MaxId(cs) == Max({cs[i].id : i \in 1..Len(cs)} \cup {0})

\* load_state.  confirm answers "Loading will wipe current state".
load_state(s, file, confirm) ==
    IF count(s) > 0 /\ ~confirm THEN s
    ELSE IF file.kind = "absent" THEN s
    ELSE
      LET cleared == [s EXCEPT !.combat_log = <<>>, !.undo_stack = <<>>,
                               !.combatants = ZeroedRoster(count(s))]
      IN
      IF file.text = <<>> THEN cleared
      ELSE
        LET values == file.read.values
            header == [ReadHeader(cleared, values) EXCEPT
                          !.combatants = ZeroedRoster(IF Len(values) >= 3 THEN values[3]
                                                      ELSE count(s))]
        IN
        IF Len(values) # 5 THEN header
        ELSE IF header.count < 0 \/ header.count > MAX_COMBATANTS THEN header
        ELSE
          LET read == file.read.combatants
              s1 == [header EXCEPT !.round = IF @ < 1 THEN 1 ELSE @,
                                   !.combatants = read,
                                   !.count = Len(read)]
              recomputed == Add32(MaxId(read), 1)
              s2 == [s1 EXCEPT !.next_id = IF recomputed <= 0 \/ recomputed = INT_MAX
                                           THEN 1 ELSE recomputed]
          IN  log_action(sort_combatants(s2), "Game Loaded")

(***************************************************************************)
(* What the user types, drawn from small sets.                             *)
(***************************************************************************)
\* One abandoned prompt stands for all of them: each returns before any write.
CancelledAdd ==
    [cancel |-> TRUE, type |-> TYPE_PLAYER, name |-> <<"G">>, initiative |-> 0,
     dex |-> 0, max_hp |-> 1]

AddInputs ==
    {CancelledAdd}
    \cup [cancel : {FALSE}, type : {TYPE_PLAYER, TYPE_ENEMY}, name : {<<"G">>},
          initiative : {10}, dex : {1}, max_hp : {1, 2}]

\* The prompts take every int: the ends of the range are typed as well.
HpChanges == {INT_MIN, -4, -2, -1, 1, INT_MAX}

EditHpInputs ==
    {[cancel |-> TRUE, change |-> 0, crit |-> FALSE]}
    \cup [cancel : {FALSE}, change : HpChanges, crit : BOOLEAN]

RerollInputs ==
    {[cancel |-> TRUE, val |-> 0]} \cup [cancel : {FALSE}, val : {5, 11}]

\* The faces of the d20 the model rolls: the ends of each band of the rules.
Rolls == {1, 2, 9, 10, 19, 20}

DupRolls == {1, 20}

DuplicateInputs ==
    {[cancel |-> TRUE, num_copies |-> 0, rolls |-> <<>>],
     [cancel |-> FALSE, num_copies |-> 0, rolls |-> <<>>]}
    \cup {[cancel |-> FALSE, num_copies |-> 1, rolls |-> r] : r \in [1..1 -> DupRolls]}
    \cup {[cancel |-> FALSE, num_copies |-> 2, rolls |-> r] : r \in [1..2 -> DupRolls]}

DurationInputs ==
    {[cancel |-> TRUE, dur |-> 0]} \cup [cancel : {FALSE}, dur : {0, 1, 2}]

NoInput == [cancel |-> TRUE, dur |-> 0]

\* Names with and without a numeric suffix (SpecNames).
NameAddInputs ==
    [cancel : {FALSE}, type : {TYPE_ENEMY},
     name : {<<"G">>, <<"G", " ", "1">>, <<"G", " ", "3">>},
     initiative : {10}, dex : {1}, max_hp : {1}]

\* Names with and without the separator of the save file (SpecDisk).
DiskAddInputs ==
    [cancel : {FALSE}, type : {TYPE_PLAYER}, name : {<<"G">>, <<"A", "|", "B">>},
     initiative : {10}, dex : {1}, max_hp : {2}]

\* Initiatives and dexterities from the whole int range (SpecSort).
WideAddInputs ==
    [cancel : {FALSE}, type : {TYPE_ENEMY}, name : {<<"G">>},
     initiative : {INT_MIN, -2, 10, INT_MAX}, dex : {-1, INT_MAX}, max_hp : {1}]

WideRerollInputs == [cancel : {FALSE}, val : {INT_MIN, -2, 10, INT_MAX}]

(***************************************************************************)
(* Save files found on disk when the program starts.  Each is what         *)
(* save_state wrote in an earlier session, from a state the keys reach:    *)
(*   PairFile       a (Player, initiative 12, max HP 2); a (Enemy,         *)
(*                  initiative 10, max HP 1); k (select the Player); s     *)
(*   EncounterFile  the same two adds; c, toggle Blinded, d 1, close (the  *)
(*                  Enemy is Blinded for 1 round); k; h -2 (the Player     *)
(*                  drops to 0); x three times, rolling 10, 10 and 5; s    *)
(***************************************************************************)
PairState ==
    [InitialState EXCEPT
       !.combatants = <<NewCombatant(1, <<"G">>, TYPE_PLAYER, 12, 1, 2),
                        NewCombatant(2, <<"G">>, TYPE_ENEMY, 10, 1, 1)>>,
       !.count = 2, !.next_id = 3, !.current_turn_id = 1, !.selected_id = 1]

PairFile == SavedFile(PairState)

EncounterState ==
    [PairState EXCEPT
       !.combatants[1] = [@ EXCEPT !.hp = 0, !.conditions = {COND_UNCONSCIOUS},
                                   !.death_save_successes = 2,
                                   !.death_save_failures = 1],
       !.combatants[2] = [@ EXCEPT !.conditions = {0}, !.condition_duration[0] = 1]]

EncounterFile == SavedFile(EncounterState)

\* The same pair saved in round 2, the Player at the top holding the turn.
LaterRoundState == [PairState EXCEPT !.round = 2]

LaterRoundFile == SavedFile(LaterRoundState)

\* The pair saved when the Player has just gone down: hp 0, Unconscious, no
\* death save rolled yet.
DyingState ==
    [PairState EXCEPT
       !.combatants[1] = [@ EXCEPT !.hp = 0, !.conditions = {COND_UNCONSCIOUS}]]

DyingFile == SavedFile(DyingState)

\* A long session saved: the first combatant is still in the roster and the
\* newest has id INT_MAX - 2, so that next_id is INT_MAX - 1.
LongSessionState ==
    [PairState EXCEPT !.combatants[2] = [@ EXCEPT !.id = INT_MAX - 2],
                      !.next_id = INT_MAX - 1]

LongSessionFile == SavedFile(LongSessionState)

\* A crowded session saved: one slot of the roster is left.
CrowdState ==
    [InitialState EXCEPT
       !.combatants = [i \in 1..(MAX_COMBATANTS - 1) |->
                         NewCombatant(i, <<"G">>, TYPE_ENEMY, 10, 1, 1)],
       !.count = MAX_COMBATANTS - 1, !.next_id = MAX_COMBATANTS,
       !.current_turn_id = 1, !.selected_id = 1]

CrowdFile == SavedFile(CrowdState)

\* Files that save_state did not write: an empty one, one whose header
\* stops after three numbers, one whose header counts 51 combatants.
EmptyFile == FileOf(<<>>)

ShortHeaderFile == FileOf(<<<<"0", "|", "7", "|", "1", "\n">>>>)

BigCountFile ==
    FileOf(<<FormatInt(1) \o <<"|">> \o FormatInt(1) \o <<"|">>
             \o FormatInt(MAX_COMBATANTS + 1) \o <<"|">> \o FormatInt(-1) \o <<"|">>
             \o FormatInt(-1) \o <<"\n">>>>)

(***************************************************************************)
(* History variables.                                                      *)
(***************************************************************************)
\* What an undo snapshot is meant to bring back.
Live(s) ==
    [combatants |-> SubSeq(s.combatants, 1, count(s)),
     current_turn_id |-> s.current_turn_id, selected_id |-> s.selected_id,
     round |-> s.round]

NoRun == [turn |-> 0, round |-> 0, n |-> 0]

\* The bookkeeping of one dispatched key: op names the key, arg is the number
\* typed at its prompt (0 if none or abandoned), roll is the d20 it rolled
\* (0 if none), flag is the answer to "Critical hit?" (FALSE if not asked),
\* pushed tells whether a snapshot was pushed first.
Command(op, arg, roll, flag) == [op |-> op, arg |-> arg, roll |-> roll, flag |-> flag]

RecordFlag(op, arg, roll, flag, pushed) ==
    /\ last_cmd' = Command(op, arg, roll, flag)
    /\ hist' = IF pushed THEN Append(hist, Live(state)) ELSE hist
    /\ nt_run' = IF op # "n" THEN NoRun
                 ELSE IF nt_run.n = 0 \/ nt_run.n >= count(state)
                      THEN [turn |-> state.current_turn_id, round |-> state.round, n |-> 1]
                      ELSE [nt_run EXCEPT !.n = @ + 1]

Record(op, arg, roll, pushed) == RecordFlag(op, arg, roll, FALSE, pushed)

(***************************************************************************)
(* The keys of main's dispatch loop.  lim bounds the exploration: a key    *)
(* that pushes a snapshot is pressed only while fewer than lim.depth       *)
(* pushes are pending, a key that logs only while the log has fewer than   *)
(* lim.log entries, and add and duplicate only up to lim.roster combatants.  Keys main ignores on an empty roster are not     *)
(* pressed then.                                                           *)
(***************************************************************************)
CoreLimits == [depth |-> MaxUndoDepth, log |-> MaxLog, roster |-> MaxRoster]

UndoRunLimits == [depth |-> UndoRunDepth, log |-> UndoRunLog, roster |-> MaxRoster]

InCombat == state.mode = MODE_COMBAT

CanLog(lim) == log_count(state) < lim.log

CanPush(lim) == Len(hist) < lim.depth /\ CanLog(lim)

\* case 'a'
KeyA(lim, inputs) ==
    /\ InCombat /\ CanPush(lim)
    /\ count(state) < lim.roster
    /\ \E in \in inputs :
          /\ state' = add_combatant(save_undo_state(state), in)
          /\ Record("a", IF in.cancel THEN 0 ELSE in.max_hp, 0, TRUE)
    /\ UNCHANGED <<save_file, export_file>>

\* case 'd'
KeyD(lim) ==
    /\ InCombat /\ CanPush(lim)
    /\ count(state) > 0
    /\ \E confirm \in BOOLEAN :
          /\ state' = remove_combatant(save_undo_state(state), confirm)
          /\ Record("d", IF confirm THEN 1 ELSE 0, 0, TRUE)
    /\ UNCHANGED <<save_file, export_file>>

\* case 'h'
KeyH(lim) ==
    /\ InCombat /\ CanPush(lim)
    /\ count(state) > 0
    /\ LET pushed == save_undo_state(state) IN
       \E in \in EditHpInputs :
          /\ state' = edit_hp(pushed, in)
          /\ RecordFlag("h", in.change, 0,
                        /\ in.crit
                        /\ edit_hp(pushed, in) # edit_hp(pushed, [in EXCEPT !.crit = FALSE]),
                        TRUE)
    /\ UNCHANGED <<save_file, export_file>>

\* case 'r'
KeyR(lim, inputs) ==
    /\ InCombat /\ CanPush(lim)
    /\ count(state) > 0
    /\ \E in \in inputs :
          /\ state' = reroll_initiative(save_undo_state(state), in)
          /\ Record("r", in.val, 0, TRUE)
    /\ UNCHANGED <<save_file, export_file>>

\* case 'c'
KeyC(lim) ==
    /\ InCombat /\ CanPush(lim)
    /\ count(state) > 0
    /\ state' = toggle_condition(state)
    /\ Record("c", 0, 0, state'.undo_stack # state.undo_stack)
    /\ UNCHANGED <<save_file, export_file>>

\* The d20 is rolled only when the handler reaches rand(): a roll of 20
\* and a roll of 1 then differ.
DieOf(with1, with20, roll) == IF with1 = with20 THEN 0 ELSE roll

\* case 'n'
KeyN(lim) ==
    /\ InCombat /\ CanPush(lim)
    /\ count(state) > 0
    /\ \/ state.round < MaxRound
       \/ get_index_by_id(state, state.current_turn_id) + 1 < count(state)
    /\ LET pushed == save_undo_state(state) IN
       \E roll \in Rolls :
          /\ state' = next_turn(pushed, roll)
          /\ Record("n", 0, DieOf(next_turn(pushed, 1), next_turn(pushed, 20), roll), TRUE)
    /\ UNCHANGED <<save_file, export_file>>

\* case 'p'
KeyP(lim) ==
    /\ InCombat /\ CanPush(lim)
    /\ count(state) > 0
    /\ state' = prev_turn(save_undo_state(state))
    /\ Record("p", 0, 0, TRUE)
    /\ UNCHANGED <<save_file, export_file>>

\* case 'x'
KeyX(lim) ==
    /\ InCombat /\ CanPush(lim)
    /\ count(state) > 0
    /\ LET pushed == save_undo_state(state) IN
       \E roll \in Rolls :
          /\ state' = roll_death_save_selected(pushed, roll)
          /\ Record("x", 0, DieOf(roll_death_save_selected(pushed, 1),
                                  roll_death_save_selected(pushed, 20), roll), TRUE)
    /\ UNCHANGED <<save_file, export_file>>

\* case 't'
KeyT(lim) ==
    /\ InCombat /\ CanPush(lim)
    /\ count(state) > 0
    /\ state' = stabilize_combatant(save_undo_state(state))
    /\ Record("t", 0, 0, TRUE)
    /\ UNCHANGED <<save_file, export_file>>

\* case 'u'
KeyU(lim) ==
    /\ InCombat /\ CanPush(lim)
    /\ count(state) > 0
    /\ \E in \in DuplicateInputs :
          /\ in.cancel \/ count(state) + in.num_copies <= lim.roster
          /\ state' = duplicate_combatant(save_undo_state(state), in)
          /\ Record("u", in.num_copies, 0, TRUE)
    /\ UNCHANGED <<save_file, export_file>>

\* case 'z'
KeyZ(lim) ==
    /\ InCombat /\ CanLog(lim)
    /\ state' = undo_last_action(state)
    /\ last_cmd' = Command(IF undo_count(state) > 0 THEN "z" ELSE "z0", 0, 0, FALSE)
    /\ hist' = IF undo_count(state) > 0 THEN Front(hist) ELSE hist
    /\ nt_run' = NoRun
    /\ UNCHANGED <<save_file, export_file>>

\* case KEY_UP / 'k' and case KEY_DOWN / 'j'
KeyUpDown ==
    /\ InCombat
    /\ count(state) > 0
    /\ \E direction \in {-1, 1} :
          /\ state' = move_selection(state, direction)
          /\ Record("j", direction, 0, FALSE)
    /\ UNCHANGED <<save_file, export_file>>

\* case 'l'
KeyL ==
    /\ InCombat
    /\ \E confirm \in BOOLEAN :
          /\ state' = load_state(state, save_file, confirm)
          /\ hist' = IF (count(state) > 0 /\ ~confirm) \/ save_file.kind = "absent"
                     THEN hist ELSE <<>>
          /\ last_cmd' = Command("l", IF confirm THEN 1 ELSE 0, 0, FALSE)
    /\ nt_run' = NoRun
    /\ UNCHANGED <<save_file, export_file>>

\* case 's'
KeyS ==
    /\ InCombat
    /\ \E opened \in BOOLEAN :
          /\ save_file' = save_state(state, save_file, opened)
          /\ Record("s", IF opened THEN 1 ELSE 0, 0, FALSE)
    /\ UNCHANGED <<state, export_file>>

\* case 'e'.  arg records the sink: 0 unopened, 1 written, 2 full.
KeyE ==
    /\ InCombat
    /\ log_count(state) > 0
    /\ \E sink \in Sinks :
          /\ state' = export_log(state, sink)
          /\ export_file' = exported(state, export_file, sink)
          /\ Record("e", CASE sink = "unopened" -> 0 [] sink = "written" -> 1
                            [] sink = "full" -> 2, 0, FALSE)
    /\ UNCHANGED save_file

\* MODE_CONDITIONS: every key goes to the menu (ESC closes it in main).
MenuKey(lim) ==
    /\ state.mode = MODE_CONDITIONS
    /\ \E ch \in {"up", "down", "toggle", "duration", "close"} :
          /\ ch = "up" => \/ state.condition_menu_cursor = 0
                          \/ state.condition_menu_cursor > NUM_CONDITIONS - MaxCursorUp
          /\ ch = "down" => state.condition_menu_cursor >= NUM_CONDITIONS - MaxCursorUp
          /\ ch \in {"toggle", "duration"} => CanLog(lim)
          /\ \E in \in (IF ch = "duration" THEN DurationInputs ELSE {NoInput}) :
                /\ state' = handle_condition_menu_input(state, ch, in)
                /\ Record(ch, in.dur, 0, FALSE)
    /\ UNCHANGED <<save_file, export_file>>

(***************************************************************************)
(* Spec: the program starts, finds a save file on disk (or none), and the  *)
(* user types.                                                             *)
(***************************************************************************)
Started(files) ==
    /\ state = InitialState
    /\ save_file \in files
    /\ export_file = <<>>
    /\ last_cmd = Command("start", 0, 0, FALSE)
    /\ hist = <<>>
    /\ nt_run = NoRun

Init == Started({NoFile, EncounterFile})

Next ==
    \/ KeyA(CoreLimits, AddInputs)
    \/ KeyD(CoreLimits)
    \/ KeyH(CoreLimits)
    \/ KeyR(CoreLimits, RerollInputs)
    \/ KeyC(CoreLimits)
    \/ KeyN(CoreLimits)
    \/ KeyP(CoreLimits)
    \/ KeyX(CoreLimits)
    \/ KeyT(CoreLimits)
    \/ KeyU(CoreLimits)
    \/ KeyZ(CoreLimits)
    \/ KeyUpDown
    \/ KeyL
    \/ MenuKey(CoreLimits)

Spec == Init /\ [][Next]_vars

(***************************************************************************)
(* SpecSort: initiatives and dexterities from the whole int range.         *)
(***************************************************************************)
InitSort == Started({NoFile})

NextSort ==
    \/ KeyA(CoreLimits, WideAddInputs)
    \/ KeyR(CoreLimits, WideRerollInputs)
    \/ KeyD(CoreLimits)
    \/ KeyU(CoreLimits)
    \/ KeyZ(CoreLimits)
    \/ KeyUpDown

SpecSort == InitSort /\ [][NextSort]_vars

(***************************************************************************)
(* SpecNames: combatants named with and without a number are added and     *)
(* the selected one is duplicated.                                         *)
(***************************************************************************)
NameLimits == [depth |-> MaxNameDepth, log |-> MaxLog, roster |-> MaxNamedRoster]

NextNames ==
    \/ KeyA(NameLimits, NameAddInputs)
    \/ KeyU(NameLimits)
    \/ KeyUpDown
    \/ KeyZ(NameLimits)

SpecNames == Started({NoFile}) /\ [][NextNames]_vars

(***************************************************************************)
(* SpecWrap: the session of LongSessionFile goes on: the file is loaded    *)
(* and combatants are added, duplicated and removed while next_id passes   *)
(* INT_MAX.                                                                *)
(***************************************************************************)
NextWrap ==
    \/ KeyL
    \/ KeyA(NameLimits, AddInputs)
    \/ KeyU(NameLimits)
    \/ KeyD(NameLimits)
    \/ KeyR(NameLimits, RerollInputs)
    \/ KeyUpDown

SpecWrap == Started({LongSessionFile}) /\ [][NextWrap]_vars

(***************************************************************************)
(* SpecExport: combatants are added and hurt, and the log is exported to a *)
(* file that cannot be opened, that takes the lines, or that is full.      *)
(***************************************************************************)
NextExport ==
    \/ KeyA(CoreLimits, AddInputs)
    \/ KeyH(CoreLimits)
    \/ KeyUpDown
    \/ Len(export_file) < MaxExportLines /\ KeyE

SpecExport == Started({NoFile}) /\ [][NextExport]_vars

(***************************************************************************)
(* SpecFull: the session of CrowdFile goes on: the file is loaded and      *)
(* combatants are added, duplicated and removed, and commands undone, at   *)
(* the capacity of the roster.  Adds and duplicates are tried on a full    *)
(* roster too.                                                             *)
(***************************************************************************)
FullLimits ==
    [depth |-> MaxUndoDepth, log |-> MaxLog, roster |-> MAX_COMBATANTS + MaxOverfill]

NextFull ==
    \/ KeyL /\ last_cmd'.arg = 1
    \/ KeyA(FullLimits, AddInputs)
    \/ KeyU(FullLimits)
    \/ KeyD(FullLimits)
    \/ KeyZ(FullLimits)

SpecFull == Started({CrowdFile}) /\ [][NextFull]_vars

(***************************************************************************)
(* SpecDisk: a session that starts without a save file: names with the     *)
(* separator in them, removals, turns, saves, and loads of what was        *)
(* saved.  A combatant is added only while next_id is at most MaxDiskId.   *)
(***************************************************************************)
InitDisk == Started({NoFile})

DiskLimits == [depth |-> MaxUndoDepth, log |-> MaxDiskLog, roster |-> MaxRoster]

NextDisk ==
    \/ state.next_id <= MaxDiskId /\ KeyA(DiskLimits, DiskAddInputs)
    \/ KeyD(DiskLimits)
    \/ KeyN(DiskLimits)
    \/ KeyUpDown
    \/ KeyS
    \/ KeyL

SpecDisk == InitDisk /\ [][NextDisk]_vars

(***************************************************************************)
(* SpecLoad: a session that finds on disk a file save_state did not write. *)
(* Once a header has left count beyond the slots of the array, every key   *)
(* but load reads past the array: those keys are not pressed then.         *)
(***************************************************************************)
InitLoad == Started({EmptyFile, ShortHeaderFile, BigCountFile})

InArray == count(state) <= Len(state.combatants)

NextLoad ==
    \/ InArray /\ KeyA(DiskLimits, AddInputs)
    \/ InArray /\ KeyH(DiskLimits)
    \/ InArray /\ KeyUpDown
    \/ KeyL

SpecLoad == InitLoad /\ [][NextLoad]_vars

(***************************************************************************)
(* SpecUndo: runs of next-turn and prev-turn on a loaded roster, followed  *)
(* by undos; a new run starts with a confirmed load.                       *)
(***************************************************************************)
InitUndo == Started({PairFile})

Undoing == last_cmd.op \in {"z", "z0"}

NextUndo ==
    \/ ~Undoing /\ KeyN(UndoRunLimits)
    \/ ~Undoing /\ KeyP(UndoRunLimits)
    \/ KeyZ(UndoRunLimits)
    \/ KeyL /\ last_cmd'.arg = 1

SpecUndo == InitUndo /\ [][NextUndo]_vars

(***************************************************************************)
(* Sessions that change the roster in round 1 (from the empty roster) and  *)
(* in round 2 (from the save file of a combat under way).                  *)
(***************************************************************************)
NextRound ==
    \/ KeyL
    \/ KeyA(NameLimits, AddInputs)
    \/ KeyR(NameLimits, RerollInputs)
    \/ KeyU(NameLimits)
    \/ KeyD(NameLimits)
    \/ KeyUpDown

SpecRound == Started({NoFile, LaterRoundFile}) /\ [][NextRound]_vars

(***************************************************************************)
(* Sessions that roll death saves for a Player who has just gone down:     *)
(* manual rolls and the roll of next_turn, nothing else in between.        *)
(***************************************************************************)
DyingLimits == [depth |-> MaxDyingDepth, log |-> MaxDyingLog, roster |-> MaxRoster]

NextDying ==
    \/ KeyL /\ last_cmd'.arg = 1
    \/ KeyX(DyingLimits)
    \/ KeyN(DyingLimits)

SpecDying == Started({DyingFile}) /\ [][NextDying]_vars

(***************************************************************************)
(* Sessions that only move the turn forward and back, after a load of the  *)
(* saved encounter or of the file whose header stops after three numbers.  *)
(***************************************************************************)
TurnLimits == [depth |-> MaxTurnDepth, log |-> MaxTurnLog, roster |-> MaxRoster]

NextTurns ==
    \/ KeyL
    \/ KeyN(TurnLimits)
    \/ KeyP(TurnLimits)

SpecTurns == Started({EncounterFile, ShortHeaderFile}) /\ [][NextTurns]_vars

(***************************************************************************)
(* Properties.                                                             *)
(***************************************************************************)
Roster == SubSeq(state.combatants, 1, count(state))

Selected == state.combatants[get_index_by_id(state, state.selected_id) + 1]

HasSelection == get_index_by_id(state, state.selected_id) # -1

LogTail(k) == IF log_count(state) >= k
              THEN state.combat_log[log_count(state) + 1 - k].message
              ELSE "none"

\* C1: after any pushing commands, one undo brings the live roster (count,
\* order, every field), current_turn_id, selected_id and round back to what
\* they were immediately before the last of those commands was issued.
C1_UndoRoundTrip ==
    [][last_cmd'.op = "z" => Live(state') = Last(hist)]_vars

\* An undo has taken back a whole condition-menu session that applied a
\* condition, and the roster it restored differs from the one it replaced.
C1_SessionUndone ==
    /\ last_cmd.op = "z"
    /\ LogTail(1) = "Action UNDONE"
    /\ LogTail(2) \in {"applied", "removed"}

\* C2: undo_count never exceeds 10; the stack always holds the pre-states of
\* the most recent pending commands, oldest first (so a push at depth 10
\* drops only the oldest); it is full once 10 or more commands were issued;
\* each successful undo pops one snapshot and restores the newest pre-state;
\* an undo reports nothing to undo only when the stack is empty, and changes
\* nothing then.
C2_BoundedUndoStack ==
    /\ [](/\ undo_count(state) <= MAX_UNDO_STACK
          /\ undo_count(state) <= Len(hist)
          /\ \A i \in 1..undo_count(state) :
                /\ state.undo_stack[i].count = Len(state.undo_stack[i].combatants)
                /\ [combatants |-> state.undo_stack[i].combatants,
                    current_turn_id |-> state.undo_stack[i].current_turn_id,
                    selected_id |-> state.undo_stack[i].selected_id,
                    round |-> state.undo_stack[i].round]
                   = hist[Len(hist) - undo_count(state) + i]
          /\ ~Undoing =>
                undo_count(state) = IF Len(hist) >= MAX_UNDO_STACK
                                    THEN MAX_UNDO_STACK ELSE Len(hist)
          /\ last_cmd.op = "z0" => undo_count(state) = 0)
    /\ [][/\ last_cmd'.op = "z" =>
               /\ undo_count(state') = undo_count(state) - 1
               /\ Live(state') = Last(hist)
          /\ last_cmd'.op = "z0" =>
               /\ undo_count(state) = 0
               /\ state' = state]_vars

\* Eleven or more commands, ten undos that succeeded, and an undo that found
\* nothing: the pre-states of the oldest commands are still in the history.
C2_EleventhUndoFails ==
    /\ last_cmd.op = "z0"
    /\ Len(hist) >= 1
    /\ undo_count(state) = 0

C4_RosterSorted ==
    \A i \in 1..(count(state) - 1) :
       LET a == state.combatants[i]
           b == state.combatants[i + 1]
       IN  \/ a.initiative > b.initiative
           \/ a.initiative = b.initiative /\ a.dex > b.dex
           \/ a.initiative = b.initiative /\ a.dex = b.dex /\ a.id < b.id

\* What a death save is about.
DeathState(c) ==
    [hp |-> c.hp, unconscious |-> COND_UNCONSCIOUS \in c.conditions,
     successes |-> c.death_save_successes, failures |-> c.death_save_failures,
     is_stable |-> c.is_stable, is_dead |-> c.is_dead]

Dying(c) == c.type = TYPE_PLAYER /\ c.hp = 0 /\ c.is_stable = 0 /\ c.is_dead = 0

\* The rule of C5 on the death state d of a dying Player for a roll r.
RuleOfRoll(d, r) ==
    IF r = 20
    THEN [d EXCEPT !.hp = 1, !.unconscious = FALSE, !.successes = 0, !.failures = 0]
    ELSE LET su == d.successes + (IF r >= 10 THEN 1 ELSE 0)
             fa == d.failures + (IF r = 1 THEN 2 ELSE IF r <= 9 THEN 1 ELSE 0)
         IN  [d EXCEPT !.successes = su, !.failures = fa,
                       !.is_stable = IF su > d.successes /\ su >= 3 THEN 1 ELSE 0,
                       !.is_dead = IF fa > d.failures /\ fa >= 3 THEN 1 ELSE 0]

\* C5: a death-save roll r (the x key on the selected combatant, or
\* next-turn on the combatant whose turn starts) changes a Player with hp 0
\* that is neither stable nor dead exactly by the rule: 20 sets hp 1, clears
\* Unconscious and resets both counters; 1 adds two failures; 10..19 add a
\* success; 2..9 add a failure; is_stable is set exactly when the roll
\* brought the successes to 3, is_dead exactly when it brought the failures
\* to 3.  On any other combatant nothing changes, and nobody else changes.
C5_DeathSaveRule ==
    [][/\ last_cmd'.op = "x" =>
            LET idx == get_index_by_id(state, state.selected_id) IN
            /\ count(state') = count(state)
            /\ \A i \in 1..count(state) :
                  LET c == state.combatants[i] IN
                  IF i = idx + 1 /\ Dying(c)
                  THEN /\ last_cmd'.roll \in 1..20
                       /\ DeathState(state'.combatants[i])
                            = RuleOfRoll(DeathState(c), last_cmd'.roll)
                       /\ [state'.combatants[i] EXCEPT
                             !.hp = c.hp, !.conditions = c.conditions,
                             !.death_save_successes = c.death_save_successes,
                             !.death_save_failures = c.death_save_failures,
                             !.is_stable = c.is_stable, !.is_dead = c.is_dead] = c
                       /\ state'.combatants[i].conditions \ {COND_UNCONSCIOUS}
                            = c.conditions \ {COND_UNCONSCIOUS}
                  ELSE state'.combatants[i] = c
       /\ last_cmd'.op = "n" =>
            LET idx == get_index_by_id(state', state'.current_turn_id) IN
            /\ count(state') = count(state)
            /\ \A i \in 1..count(state) :
                  LET c == state.combatants[i] IN
                  /\ state'.combatants[i].id = c.id
                  /\ IF i = idx + 1 /\ Dying(c)
                     THEN /\ last_cmd'.roll \in 1..20
                          /\ DeathState(state'.combatants[i])
                               = RuleOfRoll(DeathState(c), last_cmd'.roll)
                     ELSE /\ [DeathState(state'.combatants[i]) EXCEPT !.unconscious = FALSE]
                               = [DeathState(c) EXCEPT !.unconscious = FALSE]
                          /\ state'.combatants[i].conditions \subseteq c.conditions]_vars

\* A natural 1 rolled with the x key on a dying Player that had one failure:
\* three failures, dead.
C5_NaturalOneKills ==
    /\ last_cmd.op = "x" /\ last_cmd.roll = 1
    /\ HasSelection
    /\ Selected.death_save_failures = 3
    /\ Selected.is_dead = 1

\* C6: no combatant is dead and stable at once.
C6_NeverDeadAndStable ==
    \A i \in 1..count(state) :
       ~(state.combatants[i].is_dead # 0 /\ state.combatants[i].is_stable # 0)

\* A Player that was stable (three successes), took critical damage at 0 HP
\* and died of it.
C6_StableThenKilled ==
    /\ last_cmd.op = "h" /\ last_cmd.arg < 0
    /\ HasSelection
    /\ Selected.is_dead = 1
    /\ Selected.death_save_successes = 3
    /\ LogTail(3) = "no longer stable"

\* C7: every combatant with hp > 0 is neither dead nor stable.
C7_PositiveHpNotDeadNotStable ==
    \A i \in 1..count(state) :
       state.combatants[i].hp > 0 =>
          state.combatants[i].is_dead = 0 /\ state.combatants[i].is_stable = 0

\* C8: both death-save counters of every combatant stay within 0..3.
C8_CountersWithinThree ==
    \A i \in 1..count(state) :
       /\ state.combatants[i].death_save_successes \in 0..3
       /\ state.combatants[i].death_save_failures \in 0..3

\* C9: every combatant has 0 <= hp <= max_hp and max_hp >= 1.
C9_HpWithinBounds ==
    \A i \in 1..count(state) :
       /\ 0 <= state.combatants[i].hp
       /\ state.combatants[i].hp <= state.combatants[i].max_hp
       /\ state.combatants[i].max_hp >= 1

\* A heal of INT_MAX on a combatant that had hp: the sum wrapped below zero
\* and the floor of the clamp brought it to 0.
C9_HealWrapped ==
    /\ last_cmd.op = "h" /\ last_cmd.arg = INT_MAX
    /\ HasSelection
    /\ Selected.hp = 0
    /\ LogTail(1) \in {"healed", "is UNCONSCIOUS"}

\* C10: death is terminal: a key other than undo, removal or load leaves
\* every dead combatant in the roster and dead.
C10_DeathIsTerminal ==
    [][last_cmd'.op \notin {"z", "d", "l"} =>
          \A i \in 1..count(state) :
             state.combatants[i].is_dead # 0 =>
                \E j \in 1..count(state') :
                   /\ state'.combatants[j].id = state.combatants[i].id
                   /\ state'.combatants[j].is_dead # 0]_vars

\* The selected combatant before and after the step, on a step that keeps
\* the roster's size and order (edit-hp, stabilize, the x key).
Before == state.combatants[get_index_by_id(state, state.selected_id) + 1]

After == state'.combatants[get_index_by_id(state, state.selected_id) + 1]

\* C11: whenever edit-hp raises the hp of a Player that is not dead from 0
\* to a positive value, afterwards both death-save counters are 0, is_stable
\* is false and Unconscious is not among its conditions.
C11_HealFromZeroResets ==
    [][(/\ last_cmd'.op = "h"
        /\ HasSelection
        /\ Before.type = TYPE_PLAYER /\ Before.is_dead = 0 /\ Before.hp = 0
        /\ After.hp > 0)
       => /\ After.death_save_successes = 0
          /\ After.death_save_failures = 0
          /\ After.is_stable = 0
          /\ COND_UNCONSCIOUS \notin After.conditions]_vars

\* C12: edit-hp with damage d = -change on a combatant with hp h > 0: if
\* d - h >= max_hp it ends dead with hp 0, Unconscious set and both counters
\* 0; if h <= d and d - h < max_hp a Player ends with hp 0, Unconscious set,
\* both counters 0, not dead and not stable.  (d - h >= max_hp is written
\* change + h + max_hp <= 0, which no int overflows.)
C12_DamageFromPositiveHp ==
    [][(/\ last_cmd'.op = "h" /\ last_cmd'.arg < 0
        /\ HasSelection
        /\ Before.hp > 0)
       => IF last_cmd'.arg + Before.hp + Before.max_hp <= 0
          THEN /\ After.is_dead = 1 /\ After.hp = 0
               /\ COND_UNCONSCIOUS \in After.conditions
               /\ After.death_save_successes = 0
               /\ After.death_save_failures = 0
          ELSE (Before.type = TYPE_PLAYER /\ Before.hp + last_cmd'.arg <= 0)
               => /\ After.hp = 0
                  /\ COND_UNCONSCIOUS \in After.conditions
                  /\ After.death_save_successes = 0
                  /\ After.death_save_failures = 0
                  /\ After.is_dead = 0 /\ After.is_stable = 0]_vars

\* C13: edit-hp with damage on a Player that has hp 0 and is not dead leaves
\* hp 0, adds exactly 1 failure (exactly 2 when flagged critical), leaves
\* the successes, clears is_stable, and sets is_dead exactly when the
\* failures thereby reach 3 or more.
C13_DamageAtZeroHp ==
    [][(/\ last_cmd'.op = "h" /\ last_cmd'.arg < 0
        /\ HasSelection
        /\ Before.type = TYPE_PLAYER /\ Before.hp = 0 /\ Before.is_dead = 0)
       => /\ After.hp = 0
          /\ After.death_save_failures
               = Before.death_save_failures + (IF last_cmd'.flag THEN 2 ELSE 1)
          /\ After.death_save_successes = Before.death_save_successes
          /\ After.is_stable = 0
          /\ (After.is_dead = 1) <=> (After.death_save_failures >= 3)]_vars

\* C14: stabilize changes the selected combatant only if it is a Player
\* with hp 0 that is neither dead nor stable, and then sets both counters
\* to 0 and is_stable; in every other case no combatant changes.
C14_StabilizeRule ==
    [][last_cmd'.op = "t" =>
          IF HasSelection /\ Dying(Before)
          THEN /\ After = [Before EXCEPT !.death_save_successes = 0,
                                         !.death_save_failures = 0,
                                         !.is_stable = 1]
               /\ \A i \in 1..count(state) :
                     state.combatants[i].id # state.selected_id
                     => state'.combatants[i] = state.combatants[i]
               /\ count(state') = count(state)
          ELSE /\ state'.combatants = state.combatants
               /\ count(state') = count(state)]_vars

\* A dying Player with two successes and a failure on record was stabilized.
C14_DyingStabilized ==
    /\ last_cmd.op = "t"
    /\ HasSelection
    /\ Selected.is_stable = 1 /\ Selected.hp = 0
    /\ LogTail(1) = "has been stabilized"
    /\ Len(hist) > 0
    /\ \E i \in 1..Len(Last(hist).combatants) :
          /\ Last(hist).combatants[i].id = state.selected_id
          /\ Last(hist).combatants[i].death_save_successes = 2

\* The ids of the live roster, and whether no two positions share one.
IdsOf(s) == {s.combatants[i].id : i \in 1..count(s)}

DistinctIds(s) ==
    \A i, j \in 1..count(s) : i # j => s.combatants[i].id # s.combatants[j].id

\* C17: the ids of the live roster are pairwise distinct; every id of the
\* roster and of every pending snapshot is below next_id; add and duplicate
\* give ids that are at least the next_id before the command, hence above
\* every id assigned before, and leave next_id above them; no command but
\* load lowers next_id, undo included.
C17_IdsDistinctAndIncreasing ==
    /\ [](/\ DistinctIds(state)
          /\ \A id \in IdsOf(state) : id < state.next_id
          /\ \A k \in 1..undo_count(state) :
                \A i \in 1..state.undo_stack[k].count :
                   state.undo_stack[k].combatants[i].id < state.next_id)
    /\ [][/\ last_cmd'.op \in {"a", "u"} =>
               \A id \in IdsOf(state') \ IdsOf(state) :
                  id >= state.next_id /\ id < state'.next_id
          /\ last_cmd'.op # "l" => state'.next_id >= state.next_id]_vars

\* An add was undone and another add followed: the new combatant has id 2,
\* not the id 1 of the combatant the undone add had created.
C17_AddAfterUndo ==
    /\ last_cmd.op = "a" /\ last_cmd.arg # 0
    /\ count(state) = 1
    /\ state.combatants[1].id = 2
    /\ LogTail(2) = "Action UNDONE"

\* C18: when next_id wraps to 1 during add or duplicate, the ids of the
\* roster are still pairwise distinct afterwards.
C18_WrappedIdIsFree ==
    [][(/\ last_cmd'.op \in {"a", "u"}
        /\ state'.next_id < state.next_id)
       => DistinctIds(state')]_vars

\* C19: add, remove, edit-hp, reroll or duplicate abandoned at a prompt or
\* declined leaves the whole state as it was: roster, current_turn_id,
\* selected_id, round, log and undo stack.
C19_AbortLeavesNoTrace ==
    [][(last_cmd'.op \in {"a", "d", "h", "r", "u"} /\ last_cmd'.arg = 0)
       => state' = state]_vars

\* C15: a successful save immediately followed by a successful load leaves
\* the roster (every field of every combatant, in order) and round, next_id,
\* count, current_turn_id and selected_id as they were before the save.
C15_SaveLoadRoundTrip ==
    [][(/\ last_cmd.op = "s" /\ last_cmd.arg = 1
        /\ last_cmd'.op = "l"
        /\ count(state) = 0 \/ last_cmd'.arg = 1)
       => /\ Live(state') = Live(state)
          /\ state'.next_id = state.next_id]_vars

\* A file load_state refuses: no line, a header of fewer than five numbers,
\* or a count outside 0..MAX_COMBATANTS.
Refused(file) ==
    /\ file.kind = "present"
    /\ \/ file.text = <<>>
       \/ Len(file.read.values) # 5
       \/ file.read.values[3] < 0
       \/ file.read.values[3] > MAX_COMBATANTS

\* C20: a load of a file that is empty, whose header is not five integers,
\* or whose count is outside 0..50 leaves roster, count, current_turn_id,
\* selected_id, round, next_id, log and undo stack exactly as before, and
\* count within 0..50.
C20_FailedLoadChangesNothing ==
    [][(/\ last_cmd'.op = "l"
        /\ count(state) = 0 \/ last_cmd'.arg = 1
        /\ Refused(save_file))
       => /\ state' = state
          /\ count(state') \in 0..MAX_COMBATANTS]_vars

\* The combatants of s2 that a duplicate on s1 made: those with new ids.
Copies(s1, s2) == {i \in 1..count(s2) : s2.combatants[i].id \notin IdsOf(s1)}

\* C16: after a duplicate of N copies of a source with base name B, a source
\* that had no number is named "B 1", the copies are numbered consecutively,
\* and neither the source nor any copy has the name of another combatant of
\* the roster.
C16_DuplicateNames ==
    [][(last_cmd'.op = "u" /\ last_cmd'.arg > 0)
       => LET source == state.combatants[get_index_by_id(state, state.selected_id) + 1]
              B == BaseName(source.name)
              made == Copies(state, state')
              numbers == {SuffixNumber(state'.combatants[i].name, B) : i \in made}
              involved == made \cup {i \in 1..count(state') :
                                       state'.combatants[i].id = source.id}
          IN  /\ Cardinality(made) = last_cmd'.arg
              /\ \A i \in 1..count(state') :
                    (state'.combatants[i].id = source.id
                     /\ SuffixNumber(source.name, B) = 0)
                    => state'.combatants[i].name = B \o <<" ", "1">>
              /\ \E start \in numbers \ {0} :
                    numbers = start..(start + last_cmd'.arg - 1)
              /\ \A i \in involved : \A j \in 1..count(state') :
                    i # j => state'.combatants[i].name # state'.combatants[j].name]_vars

\* C21: a command that changes the roster, current_turn_id, selected_id or
\* round (load aside) appends exactly one log entry to the log as it was,
\* and that entry carries a round and a current_turn_id the engine had
\* during the command.
C21_OneEntryPerChange ==
    [][(Live(state') # Live(state) /\ last_cmd'.op # "l")
       => /\ log_count(state') = log_count(state) + 1
          /\ Front(state'.combat_log) = state.combat_log
          /\ Last(state'.combat_log).round \in {state.round, state'.round}
          /\ Last(state'.combat_log).turn_id
                \in {state.current_turn_id, state'.current_turn_id}]_vars

\* C22: an export whose file cannot be opened, or whose writes fail, leaves
\* the log as it was; an export that succeeds appends every entry to the
\* file in the order of the log and empties the log; no export changes the
\* roster, current_turn_id, selected_id, round or the undo stack.
C22_ExportClearsOnSuccessOnly ==
    [][last_cmd'.op = "e"
       => /\ last_cmd'.arg \in {0, 2} => state'.combat_log = state.combat_log
          /\ last_cmd'.arg = 1 =>
                /\ log_count(state') = 0
                /\ SelectSeq(SubSeq(export_file', Len(export_file) + 1, Len(export_file')),
                             LAMBDA line : line.kind = "entry")
                   = [i \in 1..log_count(state) |->
                        [kind |-> "entry", round |-> state.combat_log[i].round,
                         message |-> state.combat_log[i].message]]
          /\ Live(state') = Live(state)
          /\ state'.undo_stack = state.undo_stack]_vars

\* C23: undo with an empty undo stack changes nothing: roster,
\* current_turn_id, selected_id, round, next_id and the (empty) undo stack
\* are as before and no log entry is appended.
C23_UndoOnEmptyStack ==
    [][(last_cmd'.op \in {"z", "z0"} /\ undo_count(state) = 0)
       => /\ Live(state') = Live(state)
          /\ state'.next_id = state.next_id
          /\ undo_count(state') = 0
          /\ state'.combat_log = state.combat_log]_vars

\* Undo was pressed on the roster of two that a load had just brought in:
\* the load leaves the stack empty.
C23_NothingToUndo ==
    /\ last_cmd.op = "z0"
    /\ count(state) = 2
    /\ undo_count(state) = 0
    /\ LogTail(1) = "Game Loaded"

\* C24: count stays within 0..MAX_COMBATANTS; an add on a full roster leaves
\* the roster as it was; a duplicate of N copies adds exactly N combatants
\* when 1 <= N <= MAX_COMBATANTS - count and adds none otherwise.
C24_RosterWithinCapacity ==
    /\ [](/\ count(state) \in 0..MAX_COMBATANTS
          /\ Len(state.combatants) = count(state))
    /\ [][/\ (last_cmd'.op = "a" /\ count(state) = MAX_COMBATANTS)
             => Roster' = Roster
          /\ last_cmd'.op = "u"
             => IF /\ last_cmd'.arg >= 1
                   /\ last_cmd'.arg <= MAX_COMBATANTS - count(state)
                   /\ get_index_by_id(state, state.selected_id) # -1
                THEN count(state') = count(state) + last_cmd'.arg
                ELSE Roster' = Roster]_vars

\* An add was tried on a roster of MAX_COMBATANTS that a duplicate had just
\* filled.
C24_AddOnFullRoster ==
    /\ last_cmd.op = "a" /\ last_cmd.arg # 0
    /\ count(state) = MAX_COMBATANTS
    /\ LogTail(1) = "Created duplicates"

\* No Enemy of the roster has a death-save counter above 0 or is stable.
EnemiesOffDeathSaves ==
    \A i \in 1..count(state) :
       state.combatants[i].type = TYPE_ENEMY
       => /\ state.combatants[i].death_save_successes = 0
          /\ state.combatants[i].death_save_failures = 0
          /\ state.combatants[i].is_stable = 0

\* C25: an Enemy whose hp an edit-hp brings from above 0 to 0 is dead with
\* hp 0 afterwards, and no Enemy ever has a death-save counter above 0 or
\* is stable.
C25_EnemyDiesAtZeroHp ==
    /\ []EnemiesOffDeathSaves
    /\ [][(/\ last_cmd'.op = "h"
           /\ HasSelection
           /\ Before.type = TYPE_ENEMY
           /\ Before.hp > 0
           /\ After.hp = 0)
          => After.is_dead = 1]_vars

\* C26: next-turn on a non-empty roster moves current_turn_id to the
\* successor of the current combatant and leaves round alone; when there is
\* no successor (the current combatant is last, or current_turn_id is not in
\* the roster) it moves to position 0, adds exactly 1 to round and applies
\* the round-end decrement of the durations once.
C26_NextTurnStep ==
    [][last_cmd'.op = "n"
       => LET found == get_index_by_id(state, state.current_turn_id)
          IN  IF found # -1 /\ found + 1 < count(state)
              THEN /\ state'.current_turn_id = state.combatants[found + 2].id
                   /\ state'.round = state.round
              ELSE /\ state'.current_turn_id = state.combatants[1].id
                   /\ state'.round = state.round + 1
                   /\ \A i \in 1..count(state) :
                         /\ state'.combatants[i].condition_duration
                            = DecrementDurations(state.combatants[i]).condition_duration
                         /\ \A j \in Conditions :
                               state.combatants[i].condition_duration[j] = 1
                               => j \notin state'.combatants[i].conditions]_vars

\* The current turn belongs to a combatant of the roster, if there is one.
CursorInRoster == count(state) > 0 => get_index_by_id(state, state.current_turn_id) # -1

\* C27: round is at least 1 in every state; prev-turn from position 0 moves
\* current_turn_id to the last combatant and takes 1 from round if round > 1
\* (round stays 1 otherwise); prev-turn from another position moves
\* current_turn_id one position back and leaves round alone.
C27_RoundAtLeastOne ==
    /\ [](state.round >= 1)
    /\ [][last_cmd'.op = "p"
          => LET found == get_index_by_id(state, state.current_turn_id)
             IN  /\ found = 0
                    => /\ state'.current_turn_id = state.combatants[count(state)].id
                       /\ state'.round = IF state.round > 1 THEN state.round - 1 ELSE 1
                 /\ found > 0
                    => /\ state'.current_turn_id = state.combatants[found].id
                       /\ state'.round = state.round]_vars

DeathFields(c) ==
    [hp |-> c.hp, successes |-> c.death_save_successes,
     failures |-> c.death_save_failures,
     is_stable |-> c.is_stable, is_dead |-> c.is_dead]

RolledOnce(b, a) ==
    \E r \in Rolls :
       LET d == RuleOfRoll(DeathState(b), r)
       IN  DeathFields(a) = [hp |-> d.hp, successes |-> d.successes,
                             failures |-> d.failures,
                             is_stable |-> d.is_stable, is_dead |-> d.is_dead]

\* C28: a turn change (next-turn or prev-turn) rolls exactly one death save
\* for the combatant whose turn begins when that combatant is a Player with
\* hp <= 0 who is neither stable nor dead, and in every other case changes
\* no combatant's hp, death-save counters, is_stable or is_dead.
C28_DeathSaveOnTurnStart ==
    [][last_cmd'.op \in {"n", "p"}
       => LET entered == get_index_by_id(state', state'.current_turn_id) + 1
          IN  \A i \in 1..count(state) :
                 LET b == state.combatants[i]
                     a == state'.combatants[i]
                 IN  IF i = entered /\ b.type = TYPE_PLAYER /\ b.hp <= 0
                        /\ b.is_stable = 0 /\ b.is_dead = 0
                     THEN RolledOnce(b, a)
                     ELSE DeathFields(a) = DeathFields(b)]_vars

NextTurnWraps ==
    LET found == get_index_by_id(state, state.current_turn_id)
    IN  found # -1 /\ found + 1 >= count(state)

\* The natural 20 of the automatic death save of the turn that begins.
RevivedOnEntry(i) ==
    /\ last_cmd'.roll = 20
    /\ state'.combatants[i].id = state'.current_turn_id

\* C29 as stated: on a next-turn that wraps, every active condition with a
\* positive duration loses exactly 1 and leaves the condition set when it
\* reaches 0; no next-turn removes an active condition with duration 0; a
\* next-turn that does not wrap changes no duration.
C29_NoIndefiniteConditionRemoved ==
    [][last_cmd'.op = "n"
       => \A i \in 1..count(state) : \A j \in Conditions :
             LET b == state.combatants[i]
                 a == state'.combatants[i]
             IN  /\ (NextTurnWraps /\ j \in b.conditions /\ b.condition_duration[j] > 0)
                       => /\ a.condition_duration[j] = b.condition_duration[j] - 1
                          /\ a.condition_duration[j] = 0 => j \notin a.conditions
                 /\ (j \in b.conditions /\ b.condition_duration[j] = 0)
                       => j \in a.conditions
                 /\ ~NextTurnWraps
                       => a.condition_duration[j] = b.condition_duration[j]]_vars

\* C29, amended: on a next-turn that wraps, every active condition with a
\* positive duration loses exactly 1 and leaves the condition set when it
\* reaches 0; no next-turn removes an active condition with duration 0,
\* except Unconscious when the automatic death save of the turn that begins
\* rolls a natural 20; a next-turn that does not wrap changes no duration.
C29_DurationsTickOnWrap ==
    [][last_cmd'.op = "n"
       => \A i \in 1..count(state) : \A j \in Conditions :
             LET b == state.combatants[i]
                 a == state'.combatants[i]
             IN  /\ (NextTurnWraps /\ j \in b.conditions /\ b.condition_duration[j] > 0)
                       => /\ a.condition_duration[j] = b.condition_duration[j] - 1
                          /\ a.condition_duration[j] = 0 => j \notin a.conditions
                 /\ (j \in b.conditions /\ b.condition_duration[j] = 0)
                       => \/ j \in a.conditions
                          \/ j = COND_UNCONSCIOUS /\ RevivedOnEntry(i)
                 /\ ~NextTurnWraps
                       => a.condition_duration[j] = b.condition_duration[j]]_vars

C29_ExpiredOnWrapIndefiniteKept ==
    /\ last_cmd.op = "n"
    /\ hist # <<>>
    /\ state.round = Last(hist).round + 1
    /\ \E i \in 1..count(state) : \E j \in Conditions :
          /\ j \in Last(hist).combatants[i].conditions
          /\ Last(hist).combatants[i].condition_duration[j] = 1
          /\ j \notin state.combatants[i].conditions
    /\ \E i \in 1..count(state) : \E j \in Conditions :
          /\ j \in Last(hist).combatants[i].conditions
          /\ Last(hist).combatants[i].condition_duration[j] = 0
          /\ j \in state.combatants[i].conditions

MenuTarget(s) == s.combatants[get_index_by_id(s, s.condition_menu_target_id) + 1]

\* C30: a toggle in the condition menu flips exactly the bit under the menu
\* cursor on the target combatant and, when that turns the condition off,
\* sets its duration to 0; the target's other bits, durations and fields,
\* every other combatant, the menu cursor, current_turn_id, selected_id and
\* round are unchanged.  A duration key on a condition that is not active
\* changes nothing at all.
C30_ToggleFlipsOneBit ==
    [][/\ last_cmd'.op = "toggle"
          => LET j == state.condition_menu_cursor
                 idx == get_index_by_id(state, state.condition_menu_target_id)
                 b == MenuTarget(state)
             IN  /\ idx # -1
                 /\ state'.combatants =
                      [state.combatants EXCEPT ![idx + 1] =
                          IF j \in b.conditions
                          THEN [b EXCEPT !.conditions = @ \ {j},
                                         !.condition_duration[j] = 0]
                          ELSE [b EXCEPT !.conditions = @ \cup {j}]]
                 /\ state'.condition_menu_cursor = j
                 /\ state'.condition_menu_target_id = state.condition_menu_target_id
                 /\ state'.current_turn_id = state.current_turn_id
                 /\ state'.selected_id = state.selected_id
                 /\ state'.round = state.round
                 /\ state'.count = state.count
       /\ (/\ last_cmd'.op = "duration"
           /\ state.condition_menu_cursor \notin MenuTarget(state).conditions)
          => state' = state]_vars

\* A toggle has just removed a condition that had a positive duration when
\* the menu was opened.
C30_TimedConditionToggledOff ==
    /\ last_cmd.op = "toggle"
    /\ state.mode = MODE_CONDITIONS
    /\ LogTail(1) = "removed"
    /\ undo_count(state) > 0
    /\ LET j == state.condition_menu_cursor
           idx == get_index_by_id(state, state.condition_menu_target_id)
           opened == Last(state.undo_stack).combatants[idx + 1]
       IN  /\ j \in opened.conditions
           /\ opened.condition_duration[j] > 0
           /\ j \notin MenuTarget(state).conditions
           /\ MenuTarget(state).condition_duration[j] = 0

MenuOps == {"up", "down", "toggle", "duration", "close"}

ById(roster, id) == CHOOSE c \in {roster[i] : i \in 1..Len(roster)} : c.id = id

\* C31: opening the condition menu pushes exactly one undo snapshot, the
\* state before the menu; while the menu is open every step is a menu key
\* and leaves the undo stack alone; an undo that follows the menu session
\* gives the target combatant the condition set and the durations it had
\* when the menu was opened.
C31_OneSnapshotPerMenuSession ==
    [][/\ (last_cmd'.op = "c" /\ state'.mode = MODE_CONDITIONS)
          => state'.undo_stack =
                Append(IF undo_count(state) >= MAX_UNDO_STACK
                       THEN Tail(state.undo_stack) ELSE state.undo_stack,
                       Snapshot(state))
       /\ state.mode = MODE_CONDITIONS
          => /\ last_cmd'.op \in MenuOps
             /\ state'.undo_stack = state.undo_stack
       /\ (last_cmd'.op \in {"z", "z0"} /\ last_cmd.op \in MenuOps)
          => /\ hist # <<>>
             /\ LET id == state.condition_menu_target_id
                    opened == ById(Last(hist).combatants, id)
                    undone == ById(Roster', id)
                IN  /\ undone.conditions = opened.conditions
                    /\ undone.condition_duration = opened.condition_duration]_vars

C31_MenuSessionUndone ==
    /\ last_cmd.op = "z"
    /\ LogTail(1) = "Action UNDONE"
    /\ LogTail(2) = "duration set"
    /\ LogTail(3) = "applied"
    /\ \A i \in 1..count(state) : state.combatants[i].conditions = {}

IsPrefix(old, new) == Len(old) <= Len(new) /\ SubSeq(new, 1, Len(old)) = old

\* C33: every step other than an export that wrote its file leaves the
\* entries already in the combat log present, unchanged and in order: the
\* old log is a prefix of the new log.
C33_LogAppendOnly ==
    [][~(last_cmd'.op = "e" /\ last_cmd'.arg = 1)
       => IsPrefix(state.combat_log, state'.combat_log)]_vars

\* The combatant an id refers to, without what a reroll (initiative) or a
\* duplicate (the numbered name) may change on it.
Referred(s, id) ==
    [s.combatants[get_index_by_id(s, id) + 1] EXCEPT !.initiative = 0, !.name = <<>>]

\* C34: whenever the roster is non-empty, selected_id and current_turn_id
\* are ids of combatants in the roster; reroll-initiative leaves selected_id
\* alone, and after a reroll-initiative, add or duplicate that did not
\* select another combatant, selected_id refers to the same combatant as
\* before the roster was sorted again.
C34_ReferencesStayValid ==
    /\ [](count(state) > 0
            => /\ get_index_by_id(state, state.selected_id) # -1
               /\ get_index_by_id(state, state.current_turn_id) # -1)
    /\ [][(last_cmd'.op \in {"r", "a", "u"} /\ HasSelection)
          => /\ last_cmd'.op = "r" => state'.selected_id = state.selected_id
             /\ state'.selected_id = state.selected_id
                   => Referred(state', state.selected_id) = Referred(state, state.selected_id)]_vars

\* The order the roster is kept in: initiative descending, then dexterity
\* descending, then id ascending.
Precedes(a, b) ==
    \/ a.initiative > b.initiative
    \/ a.initiative = b.initiative /\ a.dex > b.dex
    \/ a.initiative = b.initiative /\ a.dex = b.dex /\ a.id < b.id

\* C35: for any two combatants of the roster the sign of compare_combatants
\* agrees with the order (negative exactly when the first precedes the
\* second, and the two directions have opposite signs), and sorting the
\* roster again leaves it as it is.
C35_ComparatorSignAgrees ==
    /\ \A i, j \in 1..count(state) :
          LET a == state.combatants[i]
              b == state.combatants[j]
          IN  /\ compare_combatants(a, b) < 0 <=> Precedes(a, b)
              /\ compare_combatants(a, b) > 0 <=> compare_combatants(b, a) < 0
    /\ sort_combatants(state) = state

\* C36: a successful undo pushes nothing and pops exactly the newest
\* snapshot; it restores the state before the newest pending command, and
\* the snapshots left are still the pre-states of the commands before it,
\* oldest first, so the next undo goes one command further back and none
\* brings an undone command back.
C36_UndoIsNotUndoable ==
    [][last_cmd'.op = "z"
       => /\ undo_count(state) > 0
          /\ state'.undo_stack = Front(state.undo_stack)
          /\ Live(state') = Last(hist)
          /\ \A i \in 1..undo_count(state') :
                [combatants |-> state'.undo_stack[i].combatants,
                 current_turn_id |-> state'.undo_stack[i].current_turn_id,
                 selected_id |-> state'.undo_stack[i].selected_id,
                 round |-> state'.undo_stack[i].round]
                = hist[Len(hist) - undo_count(state) + i]]_vars

\* Three undos in a row went three commands back, and more can follow.
C36_ThreeUndosInARow ==
    /\ last_cmd.op = "z"
    /\ LogTail(1) = "Action UNDONE"
    /\ LogTail(2) = "Action UNDONE"
    /\ LogTail(3) = "Action UNDONE"
    /\ LogTail(4) # "Action UNDONE"
    /\ undo_count(state) > 0

\* C37: in every state, a condition with a positive duration on a combatant
\* of the roster is in that combatant's condition set.
C37_TimedConditionsAreActive ==
    \A i \in 1..count(state) : \A j \in Conditions :
       state.combatants[i].condition_duration[j] > 0
          => j \in state.combatants[i].conditions

Completed == log_count(state') > log_count(state)

\* C38: a completed add or reroll-initiative in round 1 leaves
\* current_turn_id on the combatant at roster position 0; in a later round,
\* with a roster that was not empty, it leaves current_turn_id unchanged;
\* duplicate never changes current_turn_id.
C38_TurnMovesOnlyInRoundOne ==
    [][/\ (last_cmd'.op \in {"a", "r"} /\ Completed)
          => IF state.round = 1
             THEN state'.current_turn_id = state'.combatants[1].id
             ELSE count(state) > 0
                    => state'.current_turn_id = state.current_turn_id
       /\ last_cmd'.op = "u"
          => state'.current_turn_id = state.current_turn_id]_vars

\* A reroll after round 1 took the combatant whose turn it is off the top
\* of the roster, and the turn stayed with it.
C38_TurnHolderRerolledDown ==
    /\ last_cmd.op = "r"
    /\ LogTail(1) = "rerolled initiative"
    /\ state.round > 1
    /\ hist # <<>>
    /\ Last(hist).combatants[1].id = Last(hist).current_turn_id
    /\ state.current_turn_id = Last(hist).current_turn_id
    /\ state.combatants[1].id # state.current_turn_id

RollMessages == {"NATURAL 20", "NATURAL 1", "SUCCESS", "FAILURE"}

\* Death saves rolled since the log was started.
RollsLogged ==
    Cardinality({k \in 1..log_count(state) : state.combat_log[k].message \in RollMessages})

Rolled ==
    \E k \in (log_count(state) + 1)..log_count(state') :
       state'.combat_log[k].message \in RollMessages

Resolved(c) == c.hp > 0 \/ c.is_stable # 0 \/ c.is_dead # 0

\* C39: a Player who went down with no death save rolled is stable, dead or
\* back on 1 hp once 5 death saves have been rolled with nothing but rolls
\* and turns in between; every roll either resolves the dying state or
\* raises successes + failures.
C39_DyingResolvesInFiveRolls ==
    /\ [](RollsLogged >= 5
            => \A i \in 1..count(state) :
                  state.combatants[i].type = TYPE_PLAYER => Resolved(state.combatants[i]))
    /\ [][Rolled
          => \A i \in 1..count(state) :
                LET b == state.combatants[i]
                    a == state'.combatants[i]
                IN  (b.type = TYPE_PLAYER /\ ~Resolved(b))
                       => \/ Resolved(a)
                          \/ a.death_save_successes + a.death_save_failures
                                > b.death_save_successes + b.death_save_failures]_vars

\* The fifth roll settled it: two successes and two failures after four
\* rolls, then the third success.
C39_StableOnFifthRoll ==
    /\ RollsLogged = 5
    /\ \E i \in 1..count(state) :
          /\ state.combatants[i].is_stable = 1
          /\ state.combatants[i].death_save_successes = 3
          /\ state.combatants[i].death_save_failures = 2

\* C40: a prev-turn that directly follows a next-turn taken with
\* current_turn_id on a roster member restores current_turn_id and round to
\* what they were before the next-turn; no prev-turn changes anything on
\* any combatant, so what the next-turn did to durations, conditions and
\* death saves stays.
C40_PrevTurnRevertsNextTurn ==
    [][last_cmd'.op = "p"
       => /\ Roster' = Roster
          /\ (/\ last_cmd.op = "n"
              /\ hist # <<>>
              /\ \E i \in 1..Len(Last(hist).combatants) :
                    Last(hist).combatants[i].id = Last(hist).current_turn_id)
             => /\ state'.current_turn_id = Last(hist).current_turn_id
                /\ state'.round = Last(hist).round]_vars

====
